---- MODULE Spec2Model ----
(***************************************************************************)
(* Model of the pure functions of heimdex_media_contracts.                 *)
(*                                                                         *)
(* Every function of the library is side-effect free, so each component    *)
(* gets a specification of its own: its Init draws the arguments from      *)
(* small sets, its action applies the function once and stores the value   *)
(* returned.  `pc` names the component and whether the call has returned.  *)
(*                                                                         *)
(* Conventions                                                             *)
(*   - a str is a sequence of one-character strings;                       *)
(*   - a float number of seconds is an integer count of half-milliseconds  *)
(*     (0.0005 s), so that int(x * 1000) really truncates;                 *)
(*   - a ratio is a pair <<numerator, denominator>>;                       *)
(*   - a float whose rounding matters (sample_timestamps) is a binary64    *)
(*     number [m |-> mantissa bits, e |-> exponent];                       *)
(*   - a pydantic model instance is the function that is its __dict__.     *)
(***************************************************************************)
EXTENDS Integers, Sequences, FiniteSets, TLC

VARIABLES
    pc,         \* component and phase of the call being modelled
    scenes,     \* assign_segments_to_scenes: the `scenes` argument
    segments,   \* assign_segments_to_scenes: the `segments` argument
    result,     \* assign_segments_to_scenes: the returned mapping
    aggSegments, \* aggregate_transcript: the `segments` argument
    transcript, \* aggregate_transcript: the returned string
    ocrText,    \* gate_ocr_text: the `text` argument
    minChars,   \* gate_ocr_text: the `min_chars` argument
    maxChars,   \* gate_ocr_text: the `max_chars` argument
    noiseThreshold, \* gate_ocr_text: the `noise_threshold` argument
    gated,      \* gate_ocr_text: the outcome of the call
    sceneArgs,  \* keyword arguments the SceneDocument was constructed from
    sceneDoc,   \* merge_ocr_into_scene: the `scene` argument
    ocrResult,  \* merge_ocr_into_scene: the `ocr` argument
    merged,     \* merge_ocr_into_scene(scene, ocr)
    mergedAgain, \* merge_ocr_into_scene(merged, ocr)
    keywordDict, \* SpeechTagger.keyword_dict
    minScoreThreshold, \* SpeechTagger.min_score_threshold
    tagCategories, \* SpeechTagger.tag_categories
    speechSegments, \* SpeechTagger.tag: the `segments` argument
    tagged,     \* SpeechTagger.tag: the returned list
    callerDict, \* the dict the caller passed to SpeechTagger(keyword_dict)
    addCalls,   \* SpeechTagger.add_keywords: arguments of the calls made
    rankWeights, \* SegmentRanker.weights
    rankSegments, \* SegmentRanker.rank: the `segments` argument
    ranked, \* SegmentRanker.rank: the returned list
    shortsScenes, \* select_shorts_candidates: the `scenes` argument
    targetCount, \* select_shorts_candidates: the `target_count` argument
    durationRange, \* select_shorts_candidates: <<min_duration_ms, max_duration_ms>>
    scoringWeights, \* select_shorts_candidates: the `weights` argument
    candidates, \* select_shorts_candidates: the outcome of the call
    sceneScore, \* score_scene: the outcome of the call on the first scene
    durationS, \* sample_timestamps: the `duration_s` argument, <<a, b>> for a / b
    sampleFps, \* sample_timestamps: the `fps` argument, <<a, b>> for a / b
    sceneBoundaries, \* sample_timestamps: the `scene_boundaries_s` argument
    boundaryWindow, \* sample_timestamps: the `boundary_window_s` argument
    timestamps, \* sample_timestamps: the outcome of the call
    exportClips, \* generate_edl, generate_fcpxml: the `clips` argument
    exportName, \* generate_edl: `title`; generate_fcpxml: `project_name`
    frameRate, \* generate_edl, generate_fcpxml: `frame_rate`, <<a, b>> for a / b
    edl, \* generate_edl: the outcome of the call
    fcpxml, \* generate_fcpxml: the outcome of the call
    entityClass, \* the pydantic class constructed
    entityArgs, \* the keyword arguments of the constructor
    built, \* the outcome of the construction
    lists, \* the list objects of the keyword dictionaries, by address
    dicts, \* the dict objects, by address: the address of the list of each key
    taggers, \* the SpeechTagger instances constructed
    ownSegments, \* the segments passed to tag
    ownTagged, \* what the last call of tag returned
    lastCall, \* the call made last, and the instance it was made on
    addsMade \* the number of add_keywords calls made

assignVars == <<scenes, segments, result>>
aggregateVars == <<aggSegments, transcript>>
gateVars == <<ocrText, minChars, maxChars, noiseThreshold, gated>>
mergeVars == <<sceneArgs, sceneDoc, ocrResult, merged, mergedAgain>>
taggerVars ==
    <<keywordDict, minScoreThreshold, tagCategories, speechSegments, tagged>>
addVars == <<callerDict, addCalls>>
rankerVars == <<rankWeights, rankSegments, ranked>>
shortsVars == <<shortsScenes, targetCount, durationRange, scoringWeights, candidates,
      sceneScore>>
samplerVars == <<durationS, sampleFps, sceneBoundaries, boundaryWindow, timestamps>>
exportVars == <<exportClips, exportName, frameRate, edl, fcpxml>>
constructVars == <<entityClass, entityArgs, built>>
ownVars == <<lists, dicts, taggers, ownSegments, ownTagged, lastCall, addsMade>>
vars ==
    <<pc, assignVars, aggregateVars, gateVars, mergeVars, taggerVars,
      addVars, rankerVars, shortsVars, samplerVars, exportVars,
      constructVars, ownVars>>

(***************************************************************************)
(* Bounds of the model.                                                    *)
(***************************************************************************)
MaxScenes == 2
MaxSegments == 2
MaxTextLen == 2
MaxAggSegments == 3
MaxOcrLen == 3
MaxKeywords == 2
MaxTagSegments == 1
MaxAddCalls == 2
MaxRankSegments == 3
MaxShortsScenes == 2
MaxBoundaries == 1
MaxClips == 2
MaxTaggers == 2
MaxOwnAdds == 1

(***************************************************************************)
(* General helpers.                                                        *)
(***************************************************************************)
Max(a, b) == IF a >= b THEN a ELSE b
Min(a, b) == IF a <= b THEN a ELSE b
Range(s) == {s[i] : i \in DOMAIN s}
SeqsUpTo(S, n) == UNION {[1..k -> S] : k \in 0..n}
NoneValue == "None"

(***************************************************************************)
(* IEEE 754 binary64 arithmetic on the numbers >= 0.                       *)
(*                                                                         *)
(* A float is [m |-> bits, e |-> exponent], of value m * 2^e, where bits   *)
(* is the binary numeral of a natural number, lowest bit first, without    *)
(* leading zeros and of at most MantissaBits bits.  Every operation gives  *)
(* the exact result rounded to the nearest float, a tie to the even one,   *)
(* as the hardware does.                                                   *)
(***************************************************************************)
MantissaBits == 53

Zeros(k) == [i \in 1..k |-> 0]

RECURSIVE BitsOf(_)
BitsOf(n) == IF n = 0 THEN <<>> ELSE <<n % 2>> \o BitsOf(n \div 2)

RECURSIVE NatOf(_)
NatOf(bits) == IF bits = <<>> THEN 0 ELSE Head(bits) + 2 * NatOf(Tail(bits))

\* bits without its leading (highest) zeros.
Trim(bits) ==
    SubSeq(bits, 1, CHOOSE top \in 0..Len(bits) :
                        /\ top = 0 \/ bits[top] = 1
                        /\ \A i \in (top + 1)..Len(bits) : bits[i] = 0)

\* a + b + carry, added in limbs of 15 bits, the carry rippling from the
\* lowest limb.
AddBits(a, b, carry) ==
    LET w == 15
        k == (Max(Len(a), Len(b)) \div w) + 1
        Bit(x, i) == IF i <= Len(x) THEN x[i] ELSE 0
        Limb(x, j) == NatOf([i \in 1..w |-> Bit(x, (j - 1) * w + i)])
        sum[j \in 0..k] ==
            IF j = 0 THEN carry * 2^w
            ELSE Limb(a, j) + Limb(b, j) + (sum[j - 1] \div 2^w)
    IN  Trim([i \in 1..(k * w) |->
                  (sum[((i - 1) \div w) + 1] \div 2^((i - 1) % w)) % 2])

\* bits * 2^e with its lowest `drop` bits rounded away, to the nearest and
\* a tie to even; <<quotient bits, drop>>.
RoundAway(bits, drop) ==
    LET kept == SubSeq(bits, drop + 1, Len(bits))
        guard == drop >= 1 /\ drop <= Len(bits) /\ bits[drop] = 1
        sticky == \E i \in 1..Min(drop - 1, Len(bits)) : bits[i] = 1
        odd == kept # <<>> /\ kept[1] = 1
    IN  IF guard /\ (sticky \/ odd) THEN AddBits(kept, <<1>>, 0) ELSE kept

\* The float nearest to bits * 2^e.
RECURSIVE RoundFloat(_, _)
RoundFloat(bits, e) ==
    LET drop == Len(Trim(bits)) - MantissaBits
    IN  IF drop <= 0 THEN [m |-> Trim(bits), e |-> e]
        ELSE RoundFloat(RoundAway(Trim(bits), drop), e + drop)

\* The float nearest to p / q, for naturals p and q with 0 < q < 2^15: the
\* integer part of p / q, then the fraction by long division, 5 limbs of
\* 15 bits, and below them one more bit that tells whether the division
\* left a remainder.
Float(p, q) ==
    LET w == 15
        n == 5
        rem[j \in 0..n] == IF j = 0 THEN p % q ELSE (rem[j - 1] * 2^w) % q
        Limb(j) == (rem[j - 1] * 2^w) \div q
        fraction == [i \in 1..(n * w) |->
                        (Limb(n - ((i - 1) \div w)) \div 2^((i - 1) % w)) % 2]
    IN  RoundFloat(<<IF rem[n] = 0 THEN 0 ELSE 1>> \o fraction
                       \o BitsOf(p \div q),
                   -(n * w + 1))

\* x + y
FloatAdd(x, y) ==
    LET e == Min(x.e, y.e)
    IN  RoundFloat(AddBits(Zeros(x.e - e) \o x.m, Zeros(y.e - e) \o y.m, 0), e)

\* x <= y
FloatLeq(x, y) ==
    LET e == Min(x.e, y.e)
        a == IF x.m = <<>> THEN <<>> ELSE Zeros(x.e - e) \o x.m
        b == IF y.m = <<>> THEN <<>> ELSE Zeros(y.e - e) \o y.m
    IN  \/ Len(a) < Len(b)
        \/ /\ Len(a) = Len(b)
           /\ \A i \in 1..Len(a) :
                a[i] > b[i] => \E j \in (i + 1)..Len(a) : a[j] < b[j]

\* bits * n for a natural n < 2^15, multiplied limb by limb.
MulBits(bits, n) ==
    LET w == 15
        k == (Len(bits) \div w) + 2
        Bit(i) == IF i <= Len(bits) THEN bits[i] ELSE 0
        Limb(j) == NatOf([i \in 1..w |-> Bit((j - 1) * w + i)])
        prod[j \in 0..k] ==
            IF j = 0 THEN 0 ELSE Limb(j) * n + (prod[j - 1] \div 2^w)
    IN  Trim([i \in 1..(k * w) |->
                  (prod[((i - 1) \div w) + 1] \div 2^((i - 1) % w)) % 2])

\* round(x, 3) in thousandths: x * 1000 to the nearest integer, a tie to
\* the even one (Python rounds the exact value of the float).
RoundTo3(x) ==
    IF x.e >= 0 THEN NatOf(Zeros(x.e) \o MulBits(x.m, 1000))
    ELSE NatOf(RoundAway(MulBits(x.m, 1000), -x.e))

(***************************************************************************)
(* One component is called in a behaviour; the others stay idle.           *)
(***************************************************************************)
AssignIdle == scenes = <<>> /\ segments = <<>> /\ result = NoneValue
AggregateIdle == aggSegments = <<>> /\ transcript = NoneValue
GateIdle ==
    /\ ocrText = <<>>
    /\ minChars = 0
    /\ maxChars = 0
    /\ noiseThreshold = <<0, 1>>
    /\ gated = NoneValue
MergeIdle ==
    /\ sceneArgs = NoneValue
    /\ sceneDoc = NoneValue
    /\ ocrResult = NoneValue
    /\ merged = NoneValue
    /\ mergedAgain = NoneValue

TaggerIdle ==
    /\ keywordDict = NoneValue
    /\ minScoreThreshold = NoneValue
    /\ tagCategories = <<>>
    /\ speechSegments = <<>>
    /\ tagged = NoneValue
AddIdle == callerDict = NoneValue /\ addCalls = <<>>
RankerIdle ==
    /\ rankWeights = NoneValue
    /\ rankSegments = <<>>
    /\ ranked = NoneValue
ShortsIdle ==
    /\ shortsScenes = <<>>
    /\ targetCount = 0
    /\ durationRange = <<0, 0>>
    /\ scoringWeights = <<>>
    /\ candidates = NoneValue
    /\ sceneScore = NoneValue
SamplerIdle ==
    /\ durationS = <<0, 1>>
    /\ sampleFps = <<1, 1>>
    /\ sceneBoundaries = <<>>
    /\ boundaryWindow = <<0, 1>>
    /\ timestamps = NoneValue
ExportIdle ==
    /\ exportClips = <<>>
    /\ exportName = <<>>
    /\ frameRate = <<30, 1>>
    /\ edl = NoneValue
    /\ fcpxml = NoneValue
ConstructIdle ==
    /\ entityClass = "SceneBoundary"
    /\ entityArgs = <<>>
    /\ built = NoneValue
OwnIdle ==
    /\ lists = <<>>
    /\ dicts = <<>>
    /\ taggers = <<>>
    /\ ownSegments = <<>>
    /\ ownTagged = NoneValue
    /\ lastCall = <<>>
    /\ addsMade = 0

\* The components other than c are not called: their arguments are empty.
IdleExcept(c) ==
    /\ IF c = "assign" THEN TRUE ELSE AssignIdle
    /\ IF c = "aggregate" THEN TRUE ELSE AggregateIdle
    /\ IF c = "gate" THEN TRUE ELSE GateIdle
    /\ IF c = "merge" THEN TRUE ELSE MergeIdle
    /\ IF c \in {"tagger", "add"} THEN TRUE ELSE TaggerIdle
    /\ IF c = "add" THEN TRUE ELSE AddIdle
    /\ IF c = "ranker" THEN TRUE ELSE RankerIdle
    /\ IF c = "shorts" THEN TRUE ELSE ShortsIdle
    /\ IF c = "sampler" THEN TRUE ELSE SamplerIdle
    /\ IF c = "export" THEN TRUE ELSE ExportIdle
    /\ IF c = "construct" THEN TRUE ELSE ConstructIdle
    /\ IF c = "own" THEN TRUE ELSE OwnIdle

\* A call of component c leaves the variables of the other components alone.
FrameExcept(c) ==
    /\ IF c = "assign" THEN TRUE ELSE UNCHANGED assignVars
    /\ IF c = "aggregate" THEN TRUE ELSE UNCHANGED aggregateVars
    /\ IF c = "gate" THEN TRUE ELSE UNCHANGED gateVars
    /\ IF c = "merge" THEN TRUE ELSE UNCHANGED mergeVars
    /\ IF c \in {"tagger", "add"} THEN TRUE ELSE UNCHANGED taggerVars
    /\ IF c = "add" THEN TRUE ELSE UNCHANGED addVars
    /\ IF c = "ranker" THEN TRUE ELSE UNCHANGED rankerVars
    /\ IF c = "shorts" THEN TRUE ELSE UNCHANGED shortsVars
    /\ IF c = "sampler" THEN TRUE ELSE UNCHANGED samplerVars
    /\ IF c = "export" THEN TRUE ELSE UNCHANGED exportVars
    /\ IF c = "construct" THEN TRUE ELSE UNCHANGED constructVars
    /\ IF c = "own" THEN TRUE ELSE UNCHANGED ownVars

(***************************************************************************)
(* scenes/merge.py: assign_segments_to_scenes                              *)
(***************************************************************************)

\* Scene ids the scene list draws from; two scenes may carry the same id.
SceneIds == {"v_scene_000", "v_scene_001"}

\* <<start_ms, end_ms>> of the scenes drawn: adjacent scenes, a scene that
\* straddles both, and a zero-duration scene.
SceneSpans == {<<0, 2>>, <<2, 4>>, <<1, 3>>, <<3, 3>>}

\* SceneBoundary accepts end_ms >= start_ms only (its _end_after_start).
SceneBoundary(id, span) ==
    [scene_id |-> id, start_ms |-> span[1], end_ms |-> span[2]]

SceneBoundaries ==
    {SceneBoundary(id, span) : id \in SceneIds,
                               span \in {sp \in SceneSpans : sp[2] >= sp[1]}}

\* <<start, end>> of the segments drawn, in half-milliseconds: inside one
\* scene, across two scenes with equal overlap, starting between two
\* milliseconds, beyond every scene, and with its end before its start.
SegmentSpans == {<<0, 4>>, <<2, 6>>, <<3, 6>>, <<4, 8>>, <<8, 10>>, <<5, 3>>}

SegmentInputs == {[start |-> sp[1], end |-> sp[2]] : sp \in SegmentSpans}

_get_start(seg) == seg.start
_get_end(seg) == seg.end

\* int(x * 1000) for x a count of half-milliseconds: truncation towards zero.
ToMs(t) == IF t >= 0 THEN t \div 2 ELSE -((-t) \div 2)

\* lines 76-78: overlap of one segment with one scene.
Overlap(seg, scene) ==
    LET overlap_start == Max(ToMs(_get_start(seg)), scene.start_ms)
        overlap_end == Min(ToMs(_get_end(seg)), scene.end_ms)
    IN  Max(0, overlap_end - overlap_start)

RECURSIVE BestSceneLastWins(_, _, _, _, _)
BestSceneLastWins(scs, seg, k, best_scene_id, best_overlap) ==
    IF k > Len(scs) THEN best_scene_id
    ELSE LET overlap == Overlap(seg, scs[k])
         IN  IF overlap >= best_overlap /\ overlap > 0
             THEN BestSceneLastWins(scs, seg, k + 1, scs[k].scene_id, overlap)
             ELSE BestSceneLastWins(scs, seg, k + 1, best_scene_id, best_overlap)

RECURSIVE BestSceneAcceptsZero(_, _, _, _, _)
BestSceneAcceptsZero(scs, seg, k, best_scene_id, best_overlap) ==
    IF k > Len(scs) THEN best_scene_id
    ELSE LET overlap == Overlap(seg, scs[k])
         IN  IF overlap >= best_overlap
             THEN BestSceneAcceptsZero(scs, seg, k + 1, scs[k].scene_id, overlap)
             ELSE BestSceneAcceptsZero(scs, seg, k + 1, best_scene_id, best_overlap)

\* lines 72-82: the inner loop over the scenes, from scene k on.
RECURSIVE BestScene(_, _, _, _, _)
BestScene(scs, seg, k, best_scene_id, best_overlap) ==
    IF k > Len(scs) THEN best_scene_id
    ELSE LET overlap == Overlap(seg, scs[k])
         IN  IF overlap > best_overlap
             THEN BestScene(scs, seg, k + 1, scs[k].scene_id, overlap)
             ELSE BestScene(scs, seg, k + 1, best_scene_id, best_overlap)

\* lines 68-85: the loop over the segments, from segment i on.  A list of
\* the result holds the segments by their position in `segments`.
RECURSIVE AssignLoop(_, _, _, _)
AssignLoop(scs, segs, i, res) ==
    IF i > Len(segs) THEN res
    ELSE LET best_scene_id == BestScene(scs, segs[i], 1, NoneValue, 0)
         IN  IF best_scene_id # NoneValue
             THEN AssignLoop(scs, segs, i + 1,
                      [res EXCEPT ![best_scene_id] = Append(@, i)])
             ELSE AssignLoop(scs, segs, i + 1, res)

\* list.sort(key=_get_start) is a stable sort: insertion after the last
\* element whose key is not greater.
RECURSIVE InsertByStart(_, _, _)
InsertByStart(segs, sorted, i) ==
    IF sorted = <<>> THEN <<i>>
    ELSE IF _get_start(segs[sorted[Len(sorted)]]) <= _get_start(segs[i])
         THEN Append(sorted, i)
         ELSE Append(InsertByStart(segs, SubSeq(sorted, 1, Len(sorted) - 1), i),
                     sorted[Len(sorted)])

RECURSIVE SortLoop(_, _, _, _)
SortLoop(segs, list, n, sorted) ==
    IF n > Len(list) THEN sorted
    ELSE SortLoop(segs, list, n + 1, InsertByStart(segs, sorted, list[n]))

SortByStartOmitted(segs, list) == list

\* line 88: result[scene_id].sort(key=lambda s: _get_start(s))
SortByStart(segs, list) == SortLoop(segs, list, 1, <<>>)

\* lines 66-90
assign_segments_to_scenes(scs, segs) ==
    LET empty == [id \in {scs[k].scene_id : k \in DOMAIN scs} |-> <<>>]
        assigned == AssignLoop(scs, segs, 1, empty)
    IN  [id \in DOMAIN assigned |-> SortByStart(segs, assigned[id])]

InitAssign ==
    /\ pc = "assign_call"
    /\ scenes \in SeqsUpTo(SceneBoundaries, MaxScenes)
    /\ segments \in SeqsUpTo(SegmentInputs, MaxSegments)
    /\ result = NoneValue
    /\ IdleExcept("assign")

AssignSegmentsToScenes ==
    /\ pc = "assign_call"
    /\ result' = assign_segments_to_scenes(scenes, segments)
    /\ pc' = "assign_done"
    /\ UNCHANGED <<scenes, segments>>
    /\ FrameExcept("assign")

NextAssign == AssignSegmentsToScenes

SpecAssign == InitAssign /\ [][NextAssign]_vars

----
\* Occurrences of segment i in the lists of the result.
RECURSIVE CountIn(_, _)
CountIn(list, i) ==
    IF list = <<>> THEN 0
    ELSE (IF list[1] = i THEN 1 ELSE 0) + CountIn(SubSeq(list, 2, Len(list)), i)

RECURSIVE SumOver(_, _, _)
SumOver(res, ids, i) ==
    IF ids = {} THEN 0
    ELSE LET id == CHOOSE x \in ids : TRUE
         IN  CountIn(res[id], i) + SumOver(res, ids \ {id}, i)

Occurrences(i) == SumOver(result, DOMAIN result, i)

MaxOverlap(i) ==
    LET ovs == {Overlap(segments[i], scenes[k]) : k \in DOMAIN scenes}
    IN  CHOOSE m \in ovs : \A o \in ovs : o <= m

\* The first scene, in input order, whose overlap with segment i is largest.
FirstLargest(i) ==
    CHOOSE k \in DOMAIN scenes :
        /\ Overlap(segments[i], scenes[k]) = MaxOverlap(i)
        /\ \A j \in 1..(k - 1) : Overlap(segments[i], scenes[j]) < MaxOverlap(i)

HasOverlap(i) == \E k \in DOMAIN scenes : Overlap(segments[i], scenes[k]) > 0

\* C1: every segment with positive overlap with some scene is in the list of
\* the scene with the largest overlap; among scenes of equal largest overlap
\* the first of the input sequence receives it.
C1_AssignedToLargestOverlap ==
    pc = "assign_done" =>
        \A i \in DOMAIN segments :
            HasOverlap(i) =>
                i \in Range(result[scenes[FirstLargest(i)].scene_id])

\* Two scenes of different ids tie for the largest overlap, the first got it.
C1_Witness ==
    /\ pc = "assign_done"
    /\ \E i \in DOMAIN segments : \E j, k \in DOMAIN scenes :
        /\ j < k
        /\ scenes[j].scene_id # scenes[k].scene_id
        /\ Overlap(segments[i], scenes[j]) = MaxOverlap(i)
        /\ Overlap(segments[i], scenes[k]) = MaxOverlap(i)
        /\ MaxOverlap(i) > 0
        /\ i \in Range(result[scenes[j].scene_id])
        /\ i \notin Range(result[scenes[k].scene_id])

\* C2: the keys of the result are exactly the scene ids of the input, and
\* every list is in ascending order of segment start.
C2_KeysAndOrder ==
    pc = "assign_done" =>
        /\ DOMAIN result = {scenes[k].scene_id : k \in DOMAIN scenes}
        /\ \A id \in DOMAIN result : \A a, b \in DOMAIN result[id] :
            a < b => _get_start(segments[result[id][a]])
                        <= _get_start(segments[result[id][b]])

\* One scene has no segment, another holds two that came in descending order.
C2_Witness ==
    /\ pc = "assign_done"
    /\ \E id \in DOMAIN result : result[id] = <<>>
    /\ \E id \in DOMAIN result : result[id] = <<2, 1>>

\* C3: a segment is listed only under a scene id one of whose scenes it
\* overlaps, then in one list and once; a segment that overlaps no scene is
\* in no list.
C3_PositiveOverlapOnce ==
    pc = "assign_done" =>
        \A i \in DOMAIN segments :
            /\ Occurrences(i) <= 1
            /\ \A id \in DOMAIN result :
                i \in Range(result[id]) =>
                    \E k \in DOMAIN scenes :
                        /\ scenes[k].scene_id = id
                        /\ Overlap(segments[i], scenes[k]) > 0
            /\ ~HasOverlap(i) => Occurrences(i) = 0

\* A zero-duration scene is there, one segment is dropped, one is listed.
C3_Witness ==
    /\ pc = "assign_done"
    /\ \E k \in DOMAIN scenes : scenes[k].start_ms = scenes[k].end_ms
    /\ \E i \in DOMAIN segments : ~HasOverlap(i) /\ Occurrences(i) = 0
    /\ \E i \in DOMAIN segments : HasOverlap(i) /\ Occurrences(i) = 1

(***************************************************************************)
(* scenes/merge.py: aggregate_transcript                                   *)
(***************************************************************************)

\* Characters of the texts drawn: a letter and a whitespace character.
TextChars == {"a", " "}
IsSpace(c) == c = " "

Texts == SeqsUpTo(TextChars, MaxTextLen)

\* A dict segment with a "text" key, and one without it.
AggSegmentInputs ==
    {[start |-> 0, text |-> t] : t \in Texts} \cup {[start |-> 0]}

\* lines 44-47: seg.get("text", "")
_get_text(seg) == IF "text" \in DOMAIN seg THEN seg.text ELSE <<>>

RECURSIVE LStrip(_)
LStrip(s) == IF s # <<>> /\ IsSpace(s[1]) THEN LStrip(Tail(s)) ELSE s

RECURSIVE RStrip(_)
RStrip(s) ==
    IF s # <<>> /\ IsSpace(s[Len(s)])
    THEN RStrip(SubSeq(s, 1, Len(s) - 1)) ELSE s

\* str.strip()
Strip(s) == RStrip(LStrip(s))

\* " ".join(texts)
RECURSIVE Join(_)
Join(texts) ==
    IF texts = <<>> THEN <<>>
    ELSE IF Len(texts) = 1 THEN texts[1]
    ELSE texts[1] \o <<" ">> \o Join(Tail(texts))

\* [f(seg) for seg in segs if f(seg)] with f the stripped text
RECURSIVE StrippedTexts(_)
StrippedTexts(segs) ==
    IF segs = <<>> THEN <<>>
    ELSE LET t == Strip(_get_text(segs[1]))
         IN  (IF t # <<>> THEN <<t>> ELSE <<>>) \o StrippedTexts(Tail(segs))

RECURSIVE AllStrippedTexts(_)
AllStrippedTexts(segs) ==
    IF segs = <<>> THEN <<>>
    ELSE <<Strip(_get_text(segs[1]))>> \o AllStrippedTexts(Tail(segs))

aggregate_transcript_keeps_empty(segs) == Join(AllStrippedTexts(segs))

\* lines 104-105
aggregate_transcript(segs) == Join(StrippedTexts(segs))

InitAggregate ==
    /\ pc = "aggregate_call"
    /\ aggSegments \in SeqsUpTo(AggSegmentInputs, MaxAggSegments)
    /\ transcript = NoneValue
    /\ IdleExcept("aggregate")

AggregateTranscript ==
    /\ pc = "aggregate_call"
    /\ transcript' = aggregate_transcript(aggSegments)
    /\ pc' = "aggregate_done"
    /\ UNCHANGED aggSegments
    /\ FrameExcept("aggregate")

NextAggregate == AggregateTranscript

SpecAggregate == InitAggregate /\ [][NextAggregate]_vars

----
\* s is t without its leading and trailing whitespace.
IsStripOf(s, t) ==
    /\ s = <<>> \/ (~IsSpace(s[1]) /\ ~IsSpace(s[Len(s)]))
    /\ \E a \in 0..Len(t) :
        /\ a + Len(s) <= Len(t)
        /\ \A n \in 1..Len(s) : t[a + n] = s[n]
        /\ \A n \in 1..a : IsSpace(t[n])
        /\ \A n \in (a + Len(s) + 1)..Len(t) : IsSpace(t[n])

\* Positions of the segments whose stripped text is not empty.
Surviving == {i \in DOMAIN aggSegments : Strip(_get_text(aggSegments[i])) # <<>>}

RECURSIVE SumLen(_)
SumLen(I) ==
    IF I = {} THEN 0
    ELSE LET i == CHOOSE x \in I : TRUE
         IN  Len(Strip(_get_text(aggSegments[i]))) + 1 + SumLen(I \ {i})

\* Where the text of surviving segment i starts in the transcript, less one.
Offset(i) == SumLen({j \in Surviving : j < i})

\* C4: the transcript is the stripped non-empty texts in input order with
\* exactly one space between consecutive ones (K texts, K-1 separators),
\* and the empty string when no text survives.
C4_TranscriptJoined ==
    pc = "aggregate_done" =>
        /\ Surviving = {} => transcript = <<>>
        /\ Surviving # {} => Len(transcript) = SumLen(Surviving) - 1
        /\ \A i \in Surviving :
            LET piece == SubSeq(transcript, Offset(i) + 1,
                                Offset(i) + Len(Strip(_get_text(aggSegments[i]))))
                after == Offset(i) + Len(piece) + 1
            IN  /\ IsStripOf(piece, _get_text(aggSegments[i]))
                /\ piece # <<>>
                /\ after <= Len(transcript) => transcript[after] = " "

\* Two texts survive, stripped on the left and on the right, and a segment
\* without a text is dropped: the transcript holds one separator.
C4_Witness ==
    /\ pc = "aggregate_done"
    /\ Cardinality(Surviving) = 2
    /\ \E i \in DOMAIN aggSegments : "text" \notin DOMAIN aggSegments[i]
    /\ \E i, j \in Surviving :
        /\ i < j
        /\ _get_text(aggSegments[i]) = <<" ", "a">>
        /\ _get_text(aggSegments[j]) = <<"a", " ">>
    /\ transcript = <<"a", " ", "a">>

(***************************************************************************)
(* ocr/gating.py: is_noise_text, gate_ocr_text                             *)
(***************************************************************************)

\* Characters of the OCR texts drawn: one that _USEFUL_CHAR_RE matches, one
\* it does not match, and a whitespace character (which it does not match).
OcrChars == {"a", "-", " "}
IsUseful(c) == c = "a"

OcrTexts == SeqsUpTo(OcrChars, MaxOcrLen)

\* Defaults of gate_ocr_text.
DefaultMinChars == 3
DefaultMaxChars == 10000
DefaultNoiseThreshold == <<1, 2>>

\* Arguments drawn; a threshold <<p, q>> is the number p / q, q > 0.
MinCharsValues == {-1, 0, 2, DefaultMinChars}
MaxCharsValues == {-1, 0, 1, 2, DefaultMaxChars}
NoiseThresholds == {<<-1, 2>>, <<0, 1>>, DefaultNoiseThreshold, <<1, 1>>, <<3, 2>>}

\* The outcome of a call: the value returned, or the exception raised.
Return(v) == [raised |-> NoneValue, value |-> v]
Raise(e) == [raised |-> e, value |-> NoneValue]

\* len(_USEFUL_CHAR_RE.findall(s))
RECURSIVE UsefulCount(_)
UsefulCount(s) ==
    IF s = <<>> THEN 0
    ELSE (IF IsUseful(s[1]) THEN 1 ELSE 0) + UsefulCount(Tail(s))

\* a / b, which raises for b = 0
Divide(a, b) == IF b = 0 THEN Raise("ZeroDivisionError") ELSE Return(<<a, b>>)

\* a / b < p / q, for b > 0 and q > 0
Below(ratio, thr) == ratio[1] * thr[2] < thr[1] * ratio[2]

is_noise_text_inclusive(text, threshold) ==
    LET stripped == Strip(text)
        ratio == Divide(UsefulCount(stripped), Len(stripped))
    IN  IF stripped = <<>> THEN Return(TRUE)
        ELSE Return(~Below(<<threshold[1], threshold[2]>>, ratio.value))

\* lines 56-74
is_noise_text(text, threshold) ==
    LET stripped == Strip(text)
        ratio == Divide(UsefulCount(stripped), Len(stripped))
    IN  IF stripped = <<>> THEN Return(TRUE)
        ELSE IF ratio.raised # NoneValue THEN ratio
        ELSE Return(Below(ratio.value, threshold))

SlicePrefixOneMore(s, n) ==
    IF n >= 0 THEN SubSeq(s, 1, Min(n + 1, Len(s)))
    ELSE SubSeq(s, 1, Max(0, Len(s) + n + 1))

\* s[:n]: the first n items, and for n < 0 all but the last -n items.
SlicePrefix(s, n) ==
    IF n >= 0 THEN SubSeq(s, 1, Min(n, Len(s)))
    ELSE SubSeq(s, 1, Max(0, Len(s) + n))

\* gate_ocr_text without the strip of the text that is returned.
gate_ocr_text_unstripped(text, min_chars, max_chars, noise_threshold) ==
    LET stripped == Strip(text)
        noise == is_noise_text(stripped, noise_threshold)
    IN  IF Len(stripped) < min_chars THEN Return(<<>>)
        ELSE IF noise.raised # NoneValue THEN noise
        ELSE IF noise.value THEN Return(<<>>)
        ELSE Return(SlicePrefix(text, max_chars))

\* lines 77-117
gate_ocr_text(text, min_chars, max_chars, noise_threshold) ==
    LET stripped == Strip(text)
        noise == is_noise_text(stripped, noise_threshold)
    IN  IF Len(stripped) < min_chars THEN Return(<<>>)
        ELSE IF noise.raised # NoneValue THEN noise
        ELSE IF noise.value THEN Return(<<>>)
        ELSE IF Len(stripped) > max_chars
             THEN Return(SlicePrefix(stripped, max_chars))
             ELSE Return(stripped)

InitGate ==
    /\ pc = "gate_call"
    /\ ocrText \in OcrTexts
    /\ minChars \in MinCharsValues
    /\ maxChars \in MaxCharsValues
    /\ noiseThreshold \in NoiseThresholds
    /\ gated = NoneValue
    /\ IdleExcept("gate")

GateOcrText ==
    /\ pc = "gate_call"
    /\ gated' = gate_ocr_text(ocrText, minChars, maxChars, noiseThreshold)
    /\ pc' = "gate_done"
    /\ UNCHANGED <<ocrText, minChars, maxChars, noiseThreshold>>
    /\ FrameExcept("gate")

NextGate == GateOcrText

SpecGate == InitGate /\ [][NextGate]_vars

----
\* The whitespace-stripped text of the call.
StrippedOcrText == CHOOSE s \in OcrTexts : IsStripOf(s, ocrText)

\* The ratio of useful characters of s to its length is below p / q.
UsefulRatioBelow(s, thr) ==
    Cardinality({n \in DOMAIN s : IsUseful(s[n])}) * thr[2] < thr[1] * Len(s)

\* The first n characters of s (none for n <= 0).
FirstChars(s, n) == [k \in 1..Min(Max(n, 0), Len(s)) |-> s[k]]

Rejected ==
    \/ Len(StrippedOcrText) < minChars
    \/ UsefulRatioBelow(StrippedOcrText, noiseThreshold)

\* C5 as claimed: the empty string for a stripped text shorter than
\* min_chars or with a useful ratio below the threshold, otherwise the
\* stripped text cut to its first max_chars characters; nothing is raised.
C5_GateAsClaimed ==
    pc = "gate_done" =>
        /\ gated.raised = NoneValue
        /\ Rejected => gated.value = <<>>
        /\ ~Rejected => gated.value = FirstChars(StrippedOcrText, maxChars)

\* C5 as amended: the cut to the first max_chars characters is what happens
\* for max_chars >= 0; for max_chars < 0 the text loses its last -max_chars
\* characters.
C5_GateCascade ==
    pc = "gate_done" =>
        /\ gated.raised = NoneValue
        /\ Rejected => gated.value = <<>>
        /\ ~Rejected /\ maxChars >= 0 =>
                gated.value = FirstChars(StrippedOcrText, maxChars)
        /\ ~Rejected /\ maxChars < 0 =>
                gated.value = FirstChars(StrippedOcrText,
                                         Len(StrippedOcrText) + maxChars)

\* A text whose useful ratio equals the threshold passes and is cut.
C5_Witness ==
    /\ pc = "gate_done"
    /\ ocrText # StrippedOcrText
    /\ Len(StrippedOcrText) >= minChars
    /\ minChars > 0
    /\ noiseThreshold[1] > 0
    /\ UsefulCount(StrippedOcrText) * noiseThreshold[2]
            = noiseThreshold[1] * Len(StrippedOcrText)
    /\ Len(StrippedOcrText) > maxChars
    /\ maxChars > 0
    /\ gated.value # <<>>

\* C6 as claimed: the returned text is at most max_chars long, for every
\* max_chars.
C6_LengthAtMostMaxAsClaimed ==
    pc = "gate_done" => Len(gated.value) <= maxChars

\* C6 as amended: for every max_chars >= 0 the returned text is at most
\* max_chars long.
C6_LengthAtMostMax ==
    pc = "gate_done" /\ maxChars >= 0 => Len(gated.value) <= maxChars

\* A text longer than max_chars passes the gates and comes back cut.
C6_Witness ==
    /\ pc = "gate_done"
    /\ maxChars > 0
    /\ Len(StrippedOcrText) > maxChars
    /\ Len(gated.value) = maxChars

(***************************************************************************)
(* scenes/schemas.py: SceneDocument; ocr/schemas.py: OCRSceneResult;       *)
(* scenes/merge.py: merge_ocr_into_scene                                   *)
(***************************************************************************)

HasField(doc, f) == f \in DOMAIN doc
IsNone(x) == DOMAIN x = {}
NoOcr == <<>>

\* The fields SceneDocument declares with a default, lines 64-70.
SceneDocumentDefaults ==
    [transcript_raw |-> <<>>, transcript_norm |-> <<>>,
     transcript_char_count |-> 0, speech_segment_count |-> 0,
     people_cluster_ids |-> <<>>,
     thumbnail_path |-> NoneValue, thumbnail_url |-> NoneValue]

\* All the fields SceneDocument declares, lines 58-70.
SceneDocumentFields ==
    {"scene_id", "video_id", "index", "start_ms", "end_ms",
     "keyframe_timestamp_ms"} \cup DOMAIN SceneDocumentDefaults

\* SceneDocument(**kwargs): pydantic keeps the declared fields, fills in the
\* defaults and ignores every other keyword (extra = "ignore").
SceneDocument(kwargs) ==
    [f \in SceneDocumentFields |->
        IF f \in DOMAIN kwargs THEN kwargs[f] ELSE SceneDocumentDefaults[f]]

\* Keyword arguments drawn: the required ones and any of the optional ones,
\* as the tests of merge_ocr_into_scene pass them.
RequiredSceneArgs ==
    [scene_id |-> "vid_scene_000", video_id |-> "vid", index |-> 0,
     start_ms |-> 0, end_ms |-> 5000, keyframe_timestamp_ms |-> 2500]

OptionalSceneArgs ==
    [transcript_raw |-> <<"h", "i">>,
     people_cluster_ids |-> <<"cluster_001">>,
     keyword_tags |-> <<"tag1">>,
     product_tags |-> <<"prod1">>,
     ocr_text_raw |-> <<"o", "l", "d">>]

SceneArgsDrawn ==
    {[f \in S |-> OptionalSceneArgs[f]] @@ RequiredSceneArgs :
        S \in SUBSET DOMAIN OptionalSceneArgs}

\* OCRSceneResult(scene_id=.., ocr_text_raw=..): _sync_char_count sets the
\* count from the text.
OCRSceneResult(scene_id, ocr_text_raw) ==
    [scene_id |-> scene_id, frames |-> <<>>, ocr_text_raw |-> ocr_text_raw,
     ocr_char_count |-> Len(ocr_text_raw)]

OcrSceneIds == {"vid_scene_000", "vid_scene_0"}

OcrResultsDrawn ==
    {OCRSceneResult(id, t) : id \in OcrSceneIds, t \in OcrTexts} \cup {NoOcr}

\* BaseModel.model_copy(update=..): a copy of __dict__ with the items of
\* `update` written over it, declared fields or not, without validation.
model_copy(doc, update) == update @@ doc

merge_ocr_appends(scene_, ocr) ==
    IF IsNone(ocr) THEN model_copy(scene_, <<>>)
    ELSE LET gated_ == gate_ocr_text(ocr.ocr_text_raw, DefaultMinChars,
                           DefaultMaxChars, DefaultNoiseThreshold).value
             old == IF HasField(scene_, "ocr_text_raw")
                    THEN scene_.ocr_text_raw ELSE <<>>
         IN  model_copy(scene_, [ocr_text_raw |-> old \o gated_,
                                 ocr_char_count |-> Len(old \o gated_)])

\* lines 116-144
merge_ocr_into_scene(scene_, ocr) ==
    IF IsNone(ocr) THEN model_copy(scene_, <<>>)
    ELSE LET gated_ == gate_ocr_text(ocr.ocr_text_raw, DefaultMinChars,
                           DefaultMaxChars, DefaultNoiseThreshold).value
         IN  model_copy(scene_, [ocr_text_raw |-> gated_,
                                 ocr_char_count |-> Len(gated_)])

InitMerge ==
    /\ pc = "merge_call"
    /\ sceneArgs \in SceneArgsDrawn
    /\ sceneDoc = SceneDocument(sceneArgs)
    /\ ocrResult \in OcrResultsDrawn
    /\ merged = NoneValue
    /\ mergedAgain = NoneValue
    /\ IdleExcept("merge")

MergeOcrIntoScene ==
    /\ pc = "merge_call"
    /\ merged' = merge_ocr_into_scene(sceneDoc, ocrResult)
    /\ pc' = "merge_done"
    /\ UNCHANGED <<sceneArgs, sceneDoc, ocrResult, mergedAgain>>
    /\ FrameExcept("merge")

\* The document returned is merged with the same OCR result once more.
MergeOcrAgain ==
    /\ pc = "merge_done"
    /\ mergedAgain' = merge_ocr_into_scene(merged, ocrResult)
    /\ pc' = "merge_again_done"
    /\ UNCHANGED <<sceneArgs, sceneDoc, ocrResult, merged>>
    /\ FrameExcept("merge")

NextMerge == MergeOcrIntoScene \/ MergeOcrAgain

SpecMerge == InitMerge /\ [][NextMerge]_vars

----
OcrFields == {"ocr_text_raw", "ocr_char_count"}

\* The fields the data model of the specification gives a SceneDocument
\* besides the OCR ones: those of SceneBoundary, the transcript, the people
\* and the tags.
NonOcrFields ==
    SceneDocumentFields \cup {"keyword_tags", "product_tags"}

SameNonOcrFields(doc) ==
    \A f \in NonOcrFields :
        HasField(doc, f) /\ HasField(sceneDoc, f) /\ doc[f] = sceneDoc[f]

\* C7: merge_ocr_into_scene(scene, None) returns a document whose
\* ocr_text_raw is the empty string and whose ocr_char_count is 0, every
\* other field equal to that of scene.
C7_MergeNoneIsNoop ==
    pc = "merge_done" /\ IsNone(ocrResult) =>
        /\ HasField(merged, "ocr_text_raw") /\ merged.ocr_text_raw = <<>>
        /\ HasField(merged, "ocr_char_count") /\ merged.ocr_char_count = 0
        /\ SameNonOcrFields(merged)

\* C8: merge_ocr_into_scene(scene, ocr) returns a document whose
\* ocr_text_raw is gate_ocr_text(ocr.ocr_text_raw) and whose ocr_char_count
\* is its length, whose transcript, tag, people and product fields and
\* every other non-OCR field are those of scene; scene is left as it was.
C8_MergeSetsOcrKeepsRest ==
    pc = "merge_done" /\ ~IsNone(ocrResult) =>
        LET text == gate_ocr_text(ocrResult.ocr_text_raw, DefaultMinChars,
                        DefaultMaxChars, DefaultNoiseThreshold).value
        IN  /\ HasField(merged, "ocr_text_raw") /\ merged.ocr_text_raw = text
            /\ HasField(merged, "ocr_char_count")
            /\ merged.ocr_char_count = Len(text)
            /\ SameNonOcrFields(merged)
            /\ sceneDoc = SceneDocument(sceneArgs)

\* C9: merging the same OCR result (or None) into the document returned
\* gives a document equal to it.
C9_MergeIdempotent ==
    pc = "merge_again_done" => mergedAgain = merged

\* An OCR text that passes the gates was merged twice.
C9_Witness ==
    /\ pc = "merge_again_done"
    /\ ~IsNone(ocrResult)
    /\ merged.ocr_text_raw # <<>>
    /\ merged.ocr_char_count = Len(merged.ocr_text_raw)

(***************************************************************************)
(* speech/tagger.py: SpeechTagger                                          *)
(***************************************************************************)

\* A dict is its keys in insertion order and the value of each key.
Dict(order, items) == [order |-> order, items |-> items]

\* Keywords, texts and thresholds drawn: letters in both cases, a keyword
\* of two letters, and a threshold <<p, q>> standing for p / q.
KeywordsDrawn == {<<"A">>, <<"a", "b">>, <<"b">>}
TagTexts == {<<>>, <<"a">>, <<"a", "B">>, <<"B", "a">>, <<"B">>}
ScoreThresholds == {<<-1, 2>>, <<0, 1>>, <<1, 2>>}
CategoriesDrawn == <<"price", "cta">>

KeywordDictsDrawn ==
    {Dict(CategoriesDrawn, items) :
        items \in [Range(CategoriesDrawn) -> SeqsUpTo(KeywordsDrawn, MaxKeywords)]}

SpeechSegment(text) == [start |-> 0, end |-> 2, text |-> text, confidence |-> 1]

\* str.lower(), character by character
LowerChar(c) == IF c = "A" THEN "a" ELSE IF c = "B" THEN "b" ELSE c
Lower(s) == [n \in DOMAIN s |-> LowerChar(s[n])]

\* kw in text
Contains(text, kw) ==
    \E n \in 0..(Len(text) - Len(kw)) : SubSeq(text, n + 1, n + Len(kw)) = kw

\* sum(1 for kw in keywords if kw.lower() in text_lower)
RECURSIVE MatchCount(_, _)
MatchCount(keywords, text_lower) ==
    IF keywords = <<>> THEN 0
    ELSE (IF Contains(text_lower, Lower(keywords[1])) THEN 1 ELSE 0)
            + MatchCount(Tail(keywords), text_lower)

\* a / b > p / q, for b > 0 and q > 0
Above(ratio, thr) == ratio[1] * thr[2] > thr[1] * ratio[2]

RECURSIVE SelectSeq2(_, _, _)
SelectSeq2(seq, keep, n) ==
    IF n > Len(seq) THEN <<>>
    ELSE (IF seq[n] \in keep THEN <<seq[n]>> ELSE <<>>)
            \o SelectSeq2(seq, keep, n + 1)

\* lines 43-53: the scores of the categories with a match, in the order of
\* keyword_dict.
_calculate_tag_scores(kd, text) ==
    LET text_lower == Lower(text)
        matched == {c \in Range(kd.order) :
                        MatchCount(kd.items[c], text_lower) > 0}
    IN  Dict(SelectSeq2(kd.order, matched, 1),
             [c \in matched |->
                <<MatchCount(kd.items[c], text_lower), Len(kd.items[c])>>])

\* list.sort(key=score, reverse=True): stable, larger scores first.
RECURSIVE InsertByScore(_, _, _)
InsertByScore(scores, sorted, t) ==
    IF sorted = <<>> THEN <<t>>
    ELSE IF ~Above(scores.items[t],
                   scores.items[sorted[Len(sorted)]])
         THEN Append(sorted, t)
         ELSE Append(InsertByScore(scores, SubSeq(sorted, 1, Len(sorted) - 1), t),
                     sorted[Len(sorted)])

RECURSIVE SortByScore(_, _, _, _)
SortByScore(scores, list, n, sorted) ==
    IF n > Len(list) THEN sorted
    ELSE SortByScore(scores, list, n + 1, InsertByScore(scores, sorted, list[n]))

_get_tags_inclusive(scores, threshold) ==
    LET over == {c \in Range(scores.order) : ~Above(threshold, scores.items[c])}
    IN  SortByScore(scores, SelectSeq2(scores.order, over, 1), 1, <<>>)

\* lines 55-59
_get_tags_from_scores(scores, threshold) ==
    LET over == {c \in Range(scores.order) : Above(scores.items[c], threshold)}
    IN  SortByScore(scores, SelectSeq2(scores.order, over, 1), 1, <<>>)

\* lines 61-80
tag(kd, threshold, segs) ==
    [n \in DOMAIN segs |->
        LET tag_scores == _calculate_tag_scores(kd, segs[n].text)
            tags == _get_tags_from_scores(tag_scores, threshold)
        IN  [start |-> segs[n].start, end |-> segs[n].end,
             text |-> segs[n].text, confidence |-> segs[n].confidence,
             tags |-> tags, tag_scores |-> tag_scores]]

\* lines 23-41: SpeechTagger(keyword_dict, min_score_threshold)
InitTagger ==
    /\ pc = "tag_call"
    /\ keywordDict \in KeywordDictsDrawn
    /\ minScoreThreshold \in ScoreThresholds
    /\ tagCategories = keywordDict.order
    /\ speechSegments \in
            SeqsUpTo({SpeechSegment(t) : t \in TagTexts}, MaxTagSegments)
    /\ tagged = NoneValue
    /\ IdleExcept("tagger")

Tag ==
    /\ pc = "tag_call"
    /\ tagged' = tag(keywordDict, minScoreThreshold, speechSegments)
    /\ pc' = "tag_done"
    /\ UNCHANGED <<keywordDict, minScoreThreshold, tagCategories, speechSegments>>
    /\ FrameExcept("tagger")

NextTagger == Tag

SpecTagger == InitTagger /\ [][NextTagger]_vars

----
\* Keywords of category c (with their repetitions) that occur in the text
\* of segment n, whatever the case of the letters.
Matches(c, n) ==
    Cardinality({k \in DOMAIN keywordDict.items[c] :
        \E before, after \in SeqsUpTo({"a", "b"}, Len(speechSegments[n].text)) :
            Lower(speechSegments[n].text)
                = before \o Lower(keywordDict.items[c][k]) \o after})

NumKeywords(c) == Len(keywordDict.items[c])

ScoreAsClaimed(c, n) ==
    HasField(tagged[n].tag_scores.items, c) =>
        tagged[n].tag_scores.items[c] = <<Matches(c, n), NumKeywords(c)>>

\* C10 as claimed: a category is a tag exactly when matches / keywords is
\* strictly greater than min_score_threshold, for every threshold.
C10_TagsAsClaimed ==
    pc = "tag_done" =>
        \A n \in DOMAIN speechSegments : \A c \in Range(keywordDict.order) :
            /\ ScoreAsClaimed(c, n)
            /\ c \in Range(tagged[n].tags)
                <=> Matches(c, n) * minScoreThreshold[2]
                        > minScoreThreshold[1] * NumKeywords(c)

\* C10 as amended: a category with at least one matching keyword gets the
\* score matches / keywords, a category without a match gets no score, and
\* a category is a tag exactly when it has a score and the score is
\* strictly greater than min_score_threshold.
C10_TagsByScore ==
    pc = "tag_done" =>
        \A n \in DOMAIN speechSegments : \A c \in Range(keywordDict.order) :
            /\ ScoreAsClaimed(c, n)
            /\ HasField(tagged[n].tag_scores.items, c) <=> Matches(c, n) > 0
            /\ c \in Range(tagged[n].tags)
                <=> /\ Matches(c, n) > 0
                    /\ Matches(c, n) * minScoreThreshold[2]
                            > minScoreThreshold[1] * NumKeywords(c)

\* One category scores exactly the threshold and is no tag, another scores
\* more and is one, in a text with capital letters.
C10_Witness ==
    /\ pc = "tag_done"
    /\ minScoreThreshold[1] > 0
    /\ \E n \in DOMAIN speechSegments : \E c, e \in Range(keywordDict.order) :
        /\ speechSegments[n].text # Lower(speechSegments[n].text)
        /\ Matches(c, n) > 0
        /\ Matches(c, n) * minScoreThreshold[2]
                = minScoreThreshold[1] * NumKeywords(c)
        /\ c \notin Range(tagged[n].tags)
        /\ tagged[n].tags = <<e>>

(***************************************************************************)
(* speech/tagger.py: SpeechTagger.add_keywords                             *)
(***************************************************************************)

\* Keyword lists the constructor's dictionary and the calls draw from: a
\* list with a repeated keyword, and added lists that repeat a keyword of
\* the category or of themselves.
HeldDrawn == {<<>>, <<<<"A">>>>, <<<<"A">>, <<"A">>>>, <<<<"A">>, <<"b">>>>}
AddedDrawn == {<<>>, <<<<"A">>>>, <<<<"a", "b">>, <<"A">>>>,
               <<<<"a", "b">>, <<"a", "b">>>>}
AddCategories == {"price", "cta", "promo"}

\* list(set(xs)): the elements of xs once each, in the order of the set's
\* hash table, which for str changes from one process to the next.
ListOfSet(xs) ==
    {l \in [1..Cardinality(Range(xs)) -> Range(xs)] : Range(l) = Range(xs)}

add_keywords_without_set(kd, cats, category, keywords) ==
    LET fresh == ~HasField(kd.items, category)
        items == IF fresh THEN (category :> <<>>) @@ kd.items ELSE kd.items
        order == IF fresh THEN Append(kd.order, category) ELSE kd.order
    IN  {[keyword_dict |->
            Dict(order, [items EXCEPT ![category] = items[category] \o keywords]),
          tag_categories |-> IF fresh THEN Append(cats, category) ELSE cats]}

\* lines 82-89: the values of (keyword_dict, tag_categories) a call may leave
add_keywords(kd, cats, category, keywords) ==
    LET fresh == ~HasField(kd.items, category)
        items == IF fresh THEN (category :> <<>>) @@ kd.items ELSE kd.items
        order == IF fresh THEN Append(kd.order, category) ELSE kd.order
    IN  {[keyword_dict |-> Dict(order, [items EXCEPT ![category] = l]),
          tag_categories |-> IF fresh THEN Append(cats, category) ELSE cats] :
            l \in ListOfSet(items[category] \o keywords)}

\* lines 23-41: the constructor copies the caller's dictionary, list by list
InitAddKeywords ==
    /\ pc = "add_call"
    /\ callerDict \in {Dict(CategoriesDrawn, items) :
                            items \in [Range(CategoriesDrawn) -> HeldDrawn]}
    /\ keywordDict = Dict(callerDict.order,
                          [c \in DOMAIN callerDict.items |-> callerDict.items[c]])
    /\ minScoreThreshold = <<0, 1>>
    /\ tagCategories = keywordDict.order
    /\ speechSegments = <<>>
    /\ tagged = NoneValue
    /\ addCalls = <<>>
    /\ IdleExcept("add")

AddKeywords ==
    /\ pc = "add_call"
    /\ Len(addCalls) < MaxAddCalls
    /\ \E category \in AddCategories, keywords \in AddedDrawn :
        /\ \E after \in add_keywords(keywordDict, tagCategories,
                                     category, keywords) :
            /\ keywordDict' = after.keyword_dict
            /\ tagCategories' = after.tag_categories
        /\ addCalls' = Append(addCalls, <<category, keywords>>)
    /\ UNCHANGED <<pc, minScoreThreshold, speechSegments, tagged, callerDict>>
    /\ FrameExcept("add")

NextAddKeywords == AddKeywords

SpecAddKeywords == InitAddKeywords /\ [][NextAddKeywords]_vars

----
\* Categories passed to add_keywords so far, and the keywords added to c.
Passed == {addCalls[n][1] : n \in DOMAIN addCalls}
AddedTo(c) ==
    UNION {Range(addCalls[n][2]) : n \in {m \in DOMAIN addCalls : addCalls[m][1] = c}}
HeldBefore(c) ==
    IF HasField(callerDict.items, c) THEN Range(callerDict.items[c]) ELSE {}

\* C11: after any sequence of add_keywords calls, the list of each category
\* passed holds the keywords it held before and the keywords added, each
\* exactly once; a category that did not exist is created and is in
\* tag_categories; the lists of the other categories are unchanged.
C11_AddKeywords ==
    pc = "add_call" =>
        /\ DOMAIN keywordDict.items = DOMAIN callerDict.items \cup Passed
        /\ Range(keywordDict.order) = DOMAIN keywordDict.items
        /\ \A c \in Passed :
            /\ Range(keywordDict.items[c]) = HeldBefore(c) \cup AddedTo(c)
            /\ Len(keywordDict.items[c]) = Cardinality(Range(keywordDict.items[c]))
            /\ Cardinality({n \in DOMAIN tagCategories : tagCategories[n] = c}) = 1
        /\ \A c \in DOMAIN callerDict.items \ Passed :
            keywordDict.items[c] = callerDict.items[c]

\* A category is created by one call; another call adds, to a category that
\* held a keyword twice, that keyword again and a new one; the third
\* category keeps its two keywords.
C11_Witness ==
    /\ pc = "add_call"
    /\ Passed = {"promo", "price"}
    /\ "promo" \in Range(tagCategories)
    /\ callerDict.items["price"] = <<<<"A">>, <<"A">>>>
    /\ AddedTo("price") = {<<"a", "b">>, <<"A">>}
    /\ keywordDict.items["price"] = <<<<"a", "b">>, <<"A">>>>
    /\ Len(keywordDict.items["cta"]) = 2

(***************************************************************************)
(* speech/ranker.py: SegmentRanker                                         *)
(*                                                                         *)
(* A weight is an integer count of tenths; a tag score and the score of a  *)
(* segment are ratios; an importance_score, rounded to 4 decimals, is an   *)
(* integer count of ten-thousandths.  The arithmetic is exact.             *)
(***************************************************************************)

\* lines 9-20
DEFAULT_TAG_WEIGHTS ==
    [cta |-> 10, price |-> 9, benefit |-> 7, coupon |-> 7, feature |-> 5,
     bundle |-> 5, comparison |-> 4, tutorial |-> 4, qna |-> 3, delivery |-> 2]

\* Weight tables drawn: the default, an empty one, one with a negative
\* weight, one of zeros and one whose weights cancel.
WeightsDrawn ==
    {DEFAULT_TAG_WEIGHTS, <<>>, [cta |-> 10, price |-> -5],
     [cta |-> 0, price |-> 0], [cta |-> 10, price |-> -10]}

TaggedSegment(start, tags, tag_scores) ==
    [start |-> start, end |-> start + 1, text |-> <<"a">>, confidence |-> 1,
     tags |-> tags, tag_scores |-> tag_scores]

\* <<tags, tag_scores>> of the segments drawn: no tag; two single tags whose
\* scores differ only after the 4th decimal; two tags; a tag absent from
\* the weight table and from tag_scores, next to a score above 1; a tag
\* of score 0.
TagsDrawn ==
    {<<<<>>, Dict(<<>>, <<>>)>>,
     <<<<"cta">>, Dict(<<"cta">>, [cta |-> <<1, 149>>])>>,
     <<<<"cta">>, Dict(<<"cta">>, [cta |-> <<1, 150>>])>>,
     <<<<"price", "cta">>,
       Dict(<<"price", "cta">>, [price |-> <<1, 1>>, cta |-> <<1, 2>>])>>,
     <<<<"price", "misc">>, Dict(<<"price">>, [price |-> <<3, 2>>])>>,
     <<<<"price", "cta">>,
       Dict(<<"price", "cta">>, [price |-> <<1, 1>>, cta |-> <<0, 1>>])>>}

\* The segment lists drawn: segment n starts at second n.
TaggedSegmentsDrawn ==
    {[n \in DOMAIN l |-> TaggedSegment(n, l[n][1], l[n][2])] :
        l \in SeqsUpTo(TagsDrawn, MaxRankSegments)}

\* a / b as a ratio of positive denominator, and min(1.0, a / b)
Ratio(a, b) == IF b < 0 THEN <<-a, -b>> ELSE <<a, b>>
MinOne(r) == IF r[1] > r[2] THEN <<1, 1>> ELSE r

\* round(x, 4) of the ratio x, in ten-thousandths: to the nearest, a tie to
\* the even one.
Round4(r) ==
    LET q == (10000 * r[1]) \div r[2]
        rem == 10000 * r[1] - q * r[2]
    IN  IF 2 * rem > r[2] \/ (2 * rem = r[2] /\ q % 2 = 1) THEN q + 1 ELSE q

\* self.weights.get(tag, 0.1) and seg.tag_scores.get(tag, 0.0)
WeightOf(weights, t) == IF HasField(weights, t) THEN weights[t] ELSE 1
ScoreOf(seg, t) ==
    IF HasField(seg.tag_scores.items, t) THEN seg.tag_scores.items[t]
    ELSE <<0, 1>>

\* sum(self.weights.get(tag, 0.1) * seg.tag_scores.get(tag, 0.0) ...)
RECURSIVE WeightedSum(_, _, _)
WeightedSum(weights, seg, n) ==
    IF n > Len(seg.tags) THEN <<0, 1>>
    ELSE LET s == ScoreOf(seg, seg.tags[n])
             rest == WeightedSum(weights, seg, n + 1)
         IN  <<WeightOf(weights, seg.tags[n]) * s[1] * rest[2] + rest[1] * s[2],
               s[2] * rest[2]>>

\* sum(self.weights.get(tag, 0.1) ...)
RECURSIVE MaxPossible(_, _, _)
MaxPossible(weights, seg, n) ==
    IF n > Len(seg.tags) THEN 0
    ELSE WeightOf(weights, seg.tags[n]) + MaxPossible(weights, seg, n + 1)

\* lines 29-44
_score_segment(weights, seg) ==
    LET weighted_sum == WeightedSum(weights, seg, 1)
        max_possible == MaxPossible(weights, seg, 1)
    IN  IF seg.tags = <<>> THEN <<0, 1>>
        ELSE IF max_possible = 0 THEN <<0, 1>>
        ELSE MinOne(Ratio(weighted_sum[1], weighted_sum[2] * max_possible))

RankedSegment(seg, rank_, importance_score) ==
    [start |-> seg.start, end |-> seg.end, text |-> seg.text,
     confidence |-> seg.confidence, tags |-> seg.tags,
     tag_scores |-> seg.tag_scores,
     rank |-> rank_, importance_score |-> importance_score]

rank_without_sort(weights, segs) ==
    [i \in DOMAIN segs |->
        RankedSegment(segs[i], i, Round4(_score_segment(weights, segs[i])))]

\* lines 46-67: the positions of the segments, sorted by score with the
\* larger first and equal scores in their order, become the ranks.
rank(weights, segs) ==
    LET scored == Dict([n \in DOMAIN segs |-> n],
                       [n \in DOMAIN segs |-> _score_segment(weights, segs[n])])
        sorted == SortByScore(scored, scored.order, 1, <<>>)
    IN  [i \in DOMAIN sorted |->
            RankedSegment(segs[sorted[i]], i, Round4(scored.items[sorted[i]]))]

\* lines 26-27: SegmentRanker(weights)
InitRanker ==
    /\ pc = "rank_call"
    /\ rankWeights \in WeightsDrawn
    /\ rankSegments \in TaggedSegmentsDrawn
    /\ ranked = NoneValue
    /\ IdleExcept("ranker")

Rank ==
    /\ pc = "rank_call"
    /\ ranked' = rank(rankWeights, rankSegments)
    /\ pc' = "rank_done"
    /\ UNCHANGED <<rankWeights, rankSegments>>
    /\ FrameExcept("ranker")

NextRanker == Rank

SpecRanker == InitRanker /\ [][NextRanker]_vars

----
\* sum(weight[tag] * tag_scores[tag]) and sum(weight[tag]) over the tags of
\* a segment, the weights in tenths, computed tag by tag from the claim.
TagWeight(t) == IF t \in DOMAIN rankWeights THEN rankWeights[t] ELSE 1
SumOfWeights(seg) ==
    LET RECURSIVE Sum(_)
        Sum(n) == IF n = 0 THEN 0 ELSE TagWeight(seg.tags[n]) + Sum(n - 1)
    IN  Sum(Len(seg.tags))
SumOfWeighted(seg) ==
    LET RECURSIVE Sum(_)
        Sum(n) ==
            IF n = 0 THEN <<0, 1>>
            ELSE LET s == IF seg.tags[n] \in DOMAIN seg.tag_scores.items
                          THEN seg.tag_scores.items[seg.tags[n]] ELSE <<0, 1>>
                     rest == Sum(n - 1)
                 IN  <<rest[1] * s[2] + TagWeight(seg.tags[n]) * s[1] * rest[2],
                       rest[2] * s[2]>>
    IN  Sum(Len(seg.tags))

\* The weighted mean of the claim, clamped to [0,1], in ten-thousandths.
ClampedMean(seg) ==
    LET mean == Ratio(SumOfWeighted(seg)[1],
                      SumOfWeighted(seg)[2] * SumOfWeights(seg))
    IN  IF mean[1] < 0 THEN 0
        ELSE IF mean[1] > mean[2] THEN 10000
        ELSE Round4(mean)

\* C12 as claimed: the importance_score is 0 for a segment without tags,
\* else the weighted mean of its tag scores clamped to [0,1] and rounded to
\* 4 decimals, so it lies in [0,1], whatever the weight table.
C12_ImportanceInUnitRange ==
    pc = "rank_done" =>
        \A i \in DOMAIN ranked :
            /\ ranked[i].tags = <<>> => ranked[i].importance_score = 0
            /\ (ranked[i].tags # <<>> /\ SumOfWeights(ranked[i]) # 0) =>
                    ranked[i].importance_score = ClampedMean(ranked[i])
            /\ ranked[i].importance_score \in 0..10000

\* The input segment a ranked segment comes from: segment n starts at n.
InputOf(r) == rankSegments[r.start]
SameSegment(r, seg) ==
    /\ r.start = seg.start /\ r.end = seg.end /\ r.text = seg.text
    /\ r.confidence = seg.confidence
    /\ r.tags = seg.tags /\ r.tag_scores = seg.tag_scores
OnePerInput ==
    /\ Len(ranked) = Len(rankSegments)
    /\ {ranked[i].start : i \in DOMAIN ranked} = DOMAIN rankSegments
    /\ \A i \in DOMAIN ranked :
        SameSegment(ranked[i], InputOf(ranked[i])) /\ ranked[i].rank = i
\* The score of a ranked segment before it is rounded to 4 decimals.
Unrounded(r) == _score_segment(rankWeights, InputOf(r))
SameRatio(a, b) == a[1] * b[2] = b[1] * a[2]

\* C13 as claimed: one RankedSegment per input segment with the input's
\* fields, by non-increasing importance_score, segments of equal
\* importance_score in their input order, rank = 1, 2, ..., n.
C13_RankedAsClaimed ==
    pc = "rank_done" =>
        /\ OnePerInput
        /\ \A i, j \in DOMAIN ranked : i < j =>
            /\ ranked[i].importance_score >= ranked[j].importance_score
            /\ ranked[i].importance_score = ranked[j].importance_score
                    => ranked[i].start < ranked[j].start

\* C13 as amended: one RankedSegment per input segment with the input's
\* fields, by non-increasing importance_score, segments whose score before
\* rounding is equal in their input order, rank = 1, 2, ..., n.
C13_RankedByScore ==
    pc = "rank_done" =>
        /\ OnePerInput
        /\ \A i, j \in DOMAIN ranked : i < j =>
            /\ ranked[i].importance_score >= ranked[j].importance_score
            /\ SameRatio(Unrounded(ranked[i]), Unrounded(ranked[j]))
                    => ranked[i].start < ranked[j].start

\* The third segment scores highest and comes first; the two others score
\* the same, not 0, and keep their order.
C13_Witness ==
    /\ pc = "rank_done"
    /\ Len(ranked) = 3
    /\ <<ranked[1].start, ranked[2].start, ranked[3].start>> = <<3, 1, 2>>
    /\ ranked[1].importance_score > ranked[2].importance_score
    /\ SameRatio(Unrounded(ranked[2]), Unrounded(ranked[3]))
    /\ ranked[3].importance_score > 0

(***************************************************************************)
(* shorts/scorer.py: score_scene, select_shorts_candidates                 *)
(*                                                                         *)
(* A scoring weight is an integer count of hundredths, a sub-score a       *)
(* ratio, a score an integer count of ten-thousandths.                     *)
(***************************************************************************)

\* lines 18-31
DEFAULT_SCORING_WEIGHTS ==
    [keyword_density |-> 30, face_presence |-> 20, transcript_richness |-> 15,
     tag_diversity |-> 15, duration_fitness |-> 20]
HIGH_VALUE_TAGS == {"cta", "price", "benefit", "coupon"}
MIN_DURATION_MS == 30000
MAX_DURATION_MS == 60000
IDEAL_DURATION_MS == 45000
TARGET_CHARS_PER_SEC == 4

\* A ratio in lowest terms, and the sum of two ratios.
Reduced(r) ==
    LET RECURSIVE GCD(_, _)
        GCD(a, b) == IF b = 0 THEN a ELSE GCD(b, a % b)
        g == GCD(IF r[1] < 0 THEN -r[1] ELSE r[1], r[2])
    IN  <<r[1] \div g, r[2] \div g>>
AddRatio(a, b) == Reduced(<<a[1] * b[2] + b[1] * a[2], a[2] * b[2]>>)
MaxZero(r) == IF r[1] < 0 THEN <<0, 1>> ELSE r

\* lines 34-69.  An attribute the scene does not have raises AttributeError
\* where it is first read.  The optional `weights` is a sequence of at most
\* one dict: <<>> is None.
score_scene(scene, weights) ==
    LET w == IF weights = <<>> THEN DEFAULT_SCORING_WEIGHTS ELSE weights[1]
        Get(k, default) == IF HasField(w, k) THEN w[k] ELSE default
        Term(weight, score) == Reduced(<<weight * score[1], 100 * score[2]>>)
        duration_ms == scene.duration_ms
        high_value_count ==
            Cardinality({n \in DOMAIN scene.keyword_tags :
                            scene.keyword_tags[n] \in HIGH_VALUE_TAGS})
        keyword_score == MinOne(<<high_value_count, 3>>)
        face_score == IF scene.people_cluster_ids # <<>> THEN <<1, 1>> ELSE <<0, 1>>
        richness_score ==
            MinOne(Reduced(<<scene.transcript_char_count * 1000,
                             Max(duration_ms, 1) * TARGET_CHARS_PER_SEC>>))
        all_tags == Range(scene.keyword_tags) \cup Range(scene.product_tags)
        diversity_score == MinOne(<<Cardinality(all_tags), 5>>)
        fitness_score ==
            IF duration_ms < MIN_DURATION_MS
            THEN MaxZero(<<MIN_DURATION_MS - (MIN_DURATION_MS - duration_ms),
                           MIN_DURATION_MS>>)
            ELSE IF duration_ms > MAX_DURATION_MS
            THEN MaxZero(<<MAX_DURATION_MS - (duration_ms - MAX_DURATION_MS),
                           MAX_DURATION_MS>>)
            ELSE <<2 * (MAX_DURATION_MS - MIN_DURATION_MS)
                        - Max(duration_ms - IDEAL_DURATION_MS,
                              IDEAL_DURATION_MS - duration_ms),
                   2 * (MAX_DURATION_MS - MIN_DURATION_MS)>>
        total ==
            AddRatio(Term(Get("keyword_density", 30), keyword_score),
            AddRatio(Term(Get("face_presence", 20), face_score),
            AddRatio(Term(Get("transcript_richness", 15), richness_score),
            AddRatio(Term(Get("tag_diversity", 15), diversity_score),
                     Term(Get("duration_fitness", 20), Reduced(fitness_score))))))
    IN  IF \E a \in {"duration_ms", "keyword_tags", "product_tags"} :
                ~HasField(scene, a)
        THEN Raise("AttributeError")
        ELSE Return(Round4(MinOne(MaxZero(total))))

\* shorts/schemas.py lines 8-38: scene_ids is not empty, end_ms >= start_ms
ShortsCandidate(kwargs) ==
    IF kwargs.scene_ids = <<>> \/ kwargs.end_ms < kwargs.start_ms
    THEN Raise("ValidationError")
    ELSE Return(kwargs @@ [title_suggestion |-> <<>>, reason |-> <<>>])

TopScoredAll(sorted, target_count) == sorted

\* line 88: scored[:target_count]
TopScored(sorted, target_count) == SlicePrefix(sorted, target_count)

\* lines 72-104
select_shorts_candidates(scenes_, target_count, range, weights) ==
    LET InRange(n) == ~(scenes_[n].duration_ms < range[1]
                        \/ scenes_[n].duration_ms > range[2])
        Fails(n) == \/ ~HasField(scenes_[n], "duration_ms")
                    \/ InRange(n)
                        /\ score_scene(scenes_[n], weights).raised # NoneValue
        kept == SelectSeq([n \in DOMAIN scenes_ |-> n], InRange)
        scored == Dict(kept, [n \in Range(kept) |->
                        <<score_scene(scenes_[n], weights).value, 1>>])
        top == TopScored(SortByScore(scored, kept, 1, <<>>), target_count)
        made == [i \in DOMAIN top |->
            LET scene == scenes_[top[i]]
            IN  ShortsCandidate(
                    [candidate_id |-> <<scene.video_id, "_shorts_", i - 1>>,
                     video_id |-> scene.video_id,
                     scene_ids |-> <<scene.scene_id>>,
                     start_ms |-> scene.start_ms, end_ms |-> scene.end_ms,
                     score |-> scored.items[top[i]][1],
                     tags |-> scene.keyword_tags,
                     product_refs |-> scene.product_tags,
                     people_refs |-> scene.people_cluster_ids,
                     transcript_snippet |->
                        SlicePrefix(scene.transcript_raw, 200)])]
    IN  IF \E n \in DOMAIN scenes_ : Fails(n) THEN Raise("AttributeError")
        ELSE IF \E i \in DOMAIN made : made[i].raised # NoneValue
        THEN Raise("ValidationError")
        ELSE Return([i \in DOMAIN made |-> made[i].value])

\* Keyword arguments of the scenes drawn, as the tests pass them: a scene of
\* ideal duration with tags, a face and a transcript; a bare one; a short
\* one; a rich one; a long one; one that ends before it starts; one at the
\* lower end of the duration range and one a millisecond below it.
ShortsSceneArgs ==
    {[end_ms |-> 45000, keyword_tags |-> <<"cta", "price">>,
      people_cluster_ids |-> <<"cluster_001">>, transcript_char_count |-> 100],
     [end_ms |-> 45000],
     [end_ms |-> 10000, keyword_tags |-> <<"cta">>],
     [end_ms |-> 50000, keyword_tags |-> <<"cta", "price", "benefit">>,
      product_tags |-> <<"prod1">>, transcript_char_count |-> 500],
     [end_ms |-> 90000, people_cluster_ids |-> <<"cluster_001">>],
     [start_ms |-> 5000, end_ms |-> 0],
     [end_ms |-> MIN_DURATION_MS],
     [end_ms |-> MIN_DURATION_MS - 1]}

\* SceneDocument(**kwargs), and the same document given the attributes the
\* scorer reads by model_copy(update=...).
ShortsScene(n, kwargs, completed) ==
    LET doc == SceneDocument(kwargs @@
                    [scene_id |-> <<"vid_scene_", n - 1>>, index |-> n - 1]
                    @@ RequiredSceneArgs)
        given == [duration_ms |-> doc.end_ms - doc.start_ms,
                  keyword_tags |-> IF HasField(kwargs, "keyword_tags")
                                   THEN kwargs.keyword_tags ELSE <<>>,
                  product_tags |-> IF HasField(kwargs, "product_tags")
                                   THEN kwargs.product_tags ELSE <<>>]
    IN  IF completed THEN model_copy(doc, given) ELSE doc

\* A dict that weighs the duration fitness alone, by 1.0.
FitnessOnlyWeights ==
    [keyword_density |-> 0, face_presence |-> 0, transcript_richness |-> 0,
     tag_diversity |-> 0, duration_fitness |-> 100]

\* None, an empty dict, a partial one with a negative and a large weight,
\* one of zeros, and the one of the duration fitness alone.
ShortsWeightsDrawn ==
    {<<>>, <<<<>>>>, <<[keyword_density |-> -100, face_presence |-> 300]>>,
     <<[keyword_density |-> 0, face_presence |-> 0, transcript_richness |-> 0,
        tag_diversity |-> 0, duration_fitness |-> 0]>>,
     <<FitnessOnlyWeights>>}

InitShorts ==
    /\ pc = "select_call"
    /\ shortsScenes \in
        {[n \in DOMAIN l |-> ShortsScene(n, l[n][1], l[n][2])] :
            l \in SeqsUpTo(ShortsSceneArgs \X BOOLEAN, MaxShortsScenes)}
    /\ targetCount \in {-1, 0, 1, 15}
    /\ durationRange \in {<<MIN_DURATION_MS, MAX_DURATION_MS>>, <<-5000, 90000>>}
    /\ scoringWeights \in ShortsWeightsDrawn
    /\ candidates = NoneValue
    /\ sceneScore = NoneValue
    /\ IdleExcept("shorts")

SelectShortsCandidates ==
    /\ pc = "select_call"
    /\ candidates' = select_shorts_candidates(shortsScenes, targetCount,
                                              durationRange, scoringWeights)
    /\ pc' = "select_done"
    /\ UNCHANGED <<shortsScenes, targetCount, durationRange, scoringWeights,
                   sceneScore>>
    /\ FrameExcept("shorts")

ScoreScene ==
    /\ pc = "select_call"
    /\ shortsScenes # <<>>
    /\ sceneScore' = score_scene(shortsScenes[1], scoringWeights)
    /\ pc' = "score_done"
    /\ UNCHANGED <<shortsScenes, targetCount, durationRange, scoringWeights,
                   candidates>>
    /\ FrameExcept("shorts")

NextShorts == SelectShortsCandidates \/ ScoreScene

SpecShorts == InitShorts /\ [][NextShorts]_vars

----
\* A SceneDocument as its constructor leaves it: the declared fields only.
Constructed(scene) == DOMAIN scene = SceneDocumentFields

\* C14 as claimed: score_scene returns a number in [0,1] for every
\* SceneDocument that passes construction and every weights mapping.
C14_ScoreInUnitRange ==
    (pc = "score_done" /\ Constructed(shortsScenes[1])) =>
        /\ sceneScore.raised = NoneValue
        /\ sceneScore.value \in 0..10000

DurationOf(scene) == scene.end_ms - scene.start_ms
Fitting ==
    {n \in DOMAIN shortsScenes :
        /\ DurationOf(shortsScenes[n]) >= durationRange[1]
        /\ DurationOf(shortsScenes[n]) <= durationRange[2]}
SceneOf(c) ==
    CHOOSE n \in DOMAIN shortsScenes : c.scene_ids = <<shortsScenes[n].scene_id>>

\* C16 as claimed: the candidates are the first target_count of the scenes
\* whose duration is in range, by descending score_scene value: each has a
\* duration in range and its scene's score, the scores do not increase, and
\* no scene in range that was left out scores higher than a returned one.
C16_TopCandidates ==
    pc = "select_done" =>
        /\ candidates.raised = NoneValue
        /\ LET c == candidates.value
               ScoreAt(n) == score_scene(shortsScenes[n], scoringWeights).value
           IN  /\ Len(c) = Min(Max(targetCount, 0), Cardinality(Fitting))
               /\ \A i, j \in DOMAIN c : i # j => SceneOf(c[i]) # SceneOf(c[j])
               /\ \A i \in DOMAIN c :
                    /\ SceneOf(c[i]) \in Fitting
                    /\ c[i].end_ms - c[i].start_ms = DurationOf(shortsScenes[SceneOf(c[i])])
                    /\ c[i].score = ScoreAt(SceneOf(c[i]))
                    /\ \A j \in DOMAIN c : i < j => c[i].score >= c[j].score
                    /\ \A n \in Fitting \ {SceneOf(c[k]) : k \in DOMAIN c} :
                            ScoreAt(n) <= c[i].score

(***************************************************************************)
(* faces/sampling.py: sample_timestamps.                                   *)
(*                                                                         *)
(* The arguments are floats; they are drawn among the ratios <<a, b>> that *)
(* binary64 holds exactly (b a power of two), and the results are in       *)
(* thousandths of a second, the 3 decimals the code rounds to.             *)
(***************************************************************************)
LeqRatio(a, b) == a[1] * b[2] <= b[1] * a[2]
FloatOf(r) == Float(r[1], r[2])

\* lines 13-23: the values sorted, each rounded to 3 decimals, a rounded
\* value already seen skipped.
_dedupe_keep_all(key) == DOMAIN key
_dedupe_unseen(key) == {p \in DOMAIN key : \A q \in 1..(p - 1) : key[q] # key[p]}
_dedupe_sorted(values) ==
    LET n == Len(values)
        Before(i, j) ==
            IF FloatLeq(values[i], values[j])
            THEN ~FloatLeq(values[j], values[i]) \/ i < j
            ELSE FALSE
        place == <<>> \o [i \in 1..n |->
                     1 + Cardinality({j \in 1..n : Before(j, i)})]
        sorted == <<>> \o [p \in 1..n |->
                      values[CHOOSE i \in 1..n : place[i] = p]]
        key == <<>> \o [p \in 1..n |-> RoundTo3(sorted[p])]
        kept == _dedupe_unseen(key)
        Nth(k) == CHOOSE p \in kept : Cardinality({q \in kept : q < p}) = k - 1
    IN  [k \in 1..Cardinality(kept) |-> key[Nth(k)]]

\* lines 61-64: t = 0.0, then t += step while t <= duration_s.
RECURSIVE GridTimes(_, _, _)
GridTimes(t, duration_s, step) ==
    IF FloatLeq(t, duration_s)
    THEN <<t>> \o GridTimes(FloatAdd(t, step), duration_s, step)
    ELSE <<>>

\* lines 66-78: boundary + offset for the five offsets of each boundary, in
\* the order of the loops, those outside [0, duration_s] left out.  The
\* sums and the halves of the ratios drawn are exact in binary64.
BoundaryTimes(duration_s, scene_boundaries_s, boundary_window_s) ==
    LET w == boundary_window_s
        offsets == << <<-w[1], w[2]>>, <<-w[1], 2 * w[2]>>, <<0, 1>>,
                      <<w[1], 2 * w[2]>>, w >>
        ts == [n \in 1..(5 * Len(scene_boundaries_s)) |->
                  AddRatio(scene_boundaries_s[((n - 1) \div 5) + 1],
                           offsets[((n - 1) % 5) + 1])]
        InRange(x) == LeqRatio(<<0, 1>>, x) /\ LeqRatio(x, duration_s)
        within == SelectSeq(ts, InRange)
    IN  [n \in 1..Len(within) |-> FloatOf(within[n])]

\* lines 26-80
sample_timestamps(duration_s, fps, scene_boundaries_s, boundary_window_s) ==
    IF fps[1] <= 0 THEN Raise("ValueError")
    ELSE IF duration_s[1] < 0 THEN Raise("ValueError")
    ELSE IF duration_s[1] = 0 THEN Return(<<>>)
    ELSE LET step == Float(fps[2], fps[1])
             grid == GridTimes(Float(0, 1), FloatOf(duration_s), step)
             extra == BoundaryTimes(duration_s, scene_boundaries_s,
                                    boundary_window_s)
         IN  Return(_dedupe_sorted(grid \o extra))

DurationsDrawn == {<<-1, 1>>, <<0, 1>>, <<11, 16>>, <<1, 1>>, <<3, 1>>}
FpsDrawn == {<<-1, 1>>, <<0, 1>>, <<1, 1>>, <<2, 1>>, <<5, 1>>}
BoundariesDrawn == {<<0, 1>>, <<11, 16>>, <<1, 1>>, <<5, 2>>}
WindowsDrawn == {<<0, 1>>, <<1, 2>>}

InitSampler ==
    /\ pc = "sample_call"
    /\ durationS \in DurationsDrawn
    /\ sampleFps \in FpsDrawn
    /\ sceneBoundaries \in SeqsUpTo(BoundariesDrawn, MaxBoundaries)
    /\ boundaryWindow \in WindowsDrawn
    /\ timestamps = NoneValue
    /\ IdleExcept("sampler")

SampleTimestamps ==
    /\ pc = "sample_call"
    /\ timestamps' = sample_timestamps(durationS, sampleFps, sceneBoundaries,
                                       boundaryWindow)
    /\ pc' = "sample_done"
    /\ UNCHANGED <<durationS, sampleFps, sceneBoundaries, boundaryWindow>>
    /\ FrameExcept("sampler")

NextSampler == SampleTimestamps
SpecSampler == InitSampler /\ [][NextSampler]_vars

(***************************************************************************)
(* exports: ExportClip, generate_edl, generate_fcpxml.                     *)
(*                                                                         *)
(* A generated text is kept as the fields the code formats into it: a      *)
(* timecode HH:MM:SS:FF is <<h, m, s, f>>, a rational time                 *)
(* "{frames}/{fps}s" is <<frames, fps>>, and the lines of an EDL and the   *)
(* elements of an FCPXML document are records of their fields.  A frame    *)
(* rate is a ratio <<a, b>>; round(), the comparisons with 29.97 and       *)
(* 59.94 and the product ms * frame_rate / 1000.0 are computed on the      *)
(* ratio, which is what the floats give for the frame rates drawn.         *)
(***************************************************************************)
\* Python's // and % (the quotient rounded down), for b # 0.
FloorDiv(a, b) == IF b > 0 THEN a \div b ELSE (-a) \div (-b)
Mod(a, b) == a - b * FloorDiv(a, b)

\* round(a / b) for b > 0: to the nearest integer, a tie to the even one.
RoundRatio(a, b) ==
    LET low == a \div b
        twice == 2 * (a - low * b)
    IN  IF twice < b \/ (twice = b /\ low % 2 = 0) THEN low ELSE low + 1

\* exports/schemas.py lines 14-34: end_ms >= start_ms, the defaults.
ExportClip(kwargs) ==
    IF kwargs.end_ms < kwargs.start_ms THEN Raise("ValidationError")
    ELSE Return(kwargs @@ [media_path |-> <<>>, media_url |-> <<>>,
                           scene_id |-> <<>>, markers |-> <<>>])

\* lines 24-26
duration_ms(clip) == clip.end_ms - clip.start_ms

\* exports/edl.py lines 10-19; fps = 0 raises ZeroDivisionError at line 13.
_ms_to_timecode(ms, fps) ==
    LET total_frames == RoundRatio(ms * fps, 1000)
        f == Mod(total_frames, fps)
        total_seconds == FloorDiv(total_frames, fps)
        s == total_seconds % 60
        total_minutes == total_seconds \div 60
        m == total_minutes % 60
        h == total_minutes \div 60
    IN  <<h, m, s, f>>

\* line 31, and fcpxml.py line 34: the frame rate written with 3 decimals
Near(frame_rate, hundredths) ==
    LET diff == 100 * frame_rate[1] - hundredths * frame_rate[2]
    IN  (IF diff < 0 THEN -diff ELSE diff) < frame_rate[2]
is_drop_frame(frame_rate) == Near(frame_rate, 2997) \/ Near(frame_rate, 5994)

\* line 54: record_offset_ms += clip.duration_ms
RecordOffsetKept(record_offset_ms, clip) == record_offset_ms
RecordOffsetAfter(record_offset_ms, clip) == record_offset_ms + duration_ms(clip)

\* lines 40-54: the event lines, record_offset_ms carried from clip to clip.
RECURSIVE EdlEvents(_, _, _, _)
EdlEvents(clips, fps, i, record_offset_ms) ==
    IF i > Len(clips) THEN <<>>
    ELSE LET clip == clips[i]
         IN  <<[event |-> i,
                src_in |-> _ms_to_timecode(clip.start_ms, fps),
                src_out |-> _ms_to_timecode(clip.end_ms, fps),
                rec_in |-> _ms_to_timecode(record_offset_ms, fps),
                rec_out |-> _ms_to_timecode(record_offset_ms + duration_ms(clip),
                                            fps),
                clip_name |-> clip.clip_name]>>
             \o EdlEvents(clips, fps, i + 1,
                          RecordOffsetAfter(record_offset_ms, clip))

\* edl.py lines 27-28, fcpxml.py lines 48-49: `if not clips`
NoClipsNever(clips) == FALSE
NoClips(clips) == clips = <<>>

\* lines 22-57
generate_edl(clips, title, frame_rate) ==
    IF NoClips(clips) THEN Raise("ValueError")
    ELSE LET fps == RoundRatio(frame_rate[1], frame_rate[2])
         IN  IF fps = 0 THEN Raise("ZeroDivisionError")
             ELSE Return([title |-> title,
                          fcm |-> IF is_drop_frame(frame_rate)
                                  THEN "DROP FRAME" ELSE "NON-DROP FRAME",
                          events |-> EdlEvents(clips, fps, 1, 0)])

\* xml.sax.saxutils.escape: & < > replaced by &amp; &lt; &gt;
RECURSIVE escape(_)
escape(str) ==
    IF str = <<>> THEN <<>>
    ELSE (CASE Head(str) = "&" -> <<"&", "a", "m", "p", ";">>
            [] Head(str) = "<" -> <<"&", "l", "t", ";">>
            [] Head(str) = ">" -> <<"&", "g", "t", ";">>
            [] OTHER -> <<Head(str)>>) \o escape(Tail(str))

\* exports/fcpxml.py lines 25-29
_rational_time(ms, frame_rate) ==
    <<RoundRatio(ms * frame_rate[1], 1000 * frame_rate[2]),
      RoundRatio(frame_rate[1], frame_rate[2])>>

\* lines 32-40: <<frameDuration, tcFormat>>, the frame duration "a/bs" as
\* <<a, b>>; the key is the frame rate written with 3 decimals.
_resolve_frame_params(frame_rate) ==
    LET key == RoundRatio(1000 * frame_rate[1], frame_rate[2])
        fps_int == RoundRatio(frame_rate[1], frame_rate[2])
    IN  CASE key = 23976 -> <<<<1001, 24000>>, "NDF">>
          [] key = 29970 -> <<<<1001, 30000>>, "DF">>
          [] key = 59940 -> <<<<1001, 60000>>, "DF">>
          [] OTHER -> <<<<1, fps_int>>, "NDF">>

\* line 87: timeline_offset_ms before clip i
RECURSIVE TimelineOffset(_, _)
TimelineOffset(clips, i) ==
    IF i = 1 THEN 0
    ELSE TimelineOffset(clips, i - 1) + duration_ms(clips[i - 1])

\* lines 43-113
generate_fcpxml(clips, project_name, frame_rate) ==
    IF NoClips(clips) THEN Raise("ValueError")
    ELSE LET params == _resolve_frame_params(frame_rate)
             fps_int == RoundRatio(frame_rate[1], frame_rate[2])
             FileUrl(clip) ==
                IF clip.media_url # <<>> THEN clip.media_url
                ELSE <<"f", "i", "l", "e", ":", "/", "/">> \o clip.media_path
         IN  Return(
                [format |-> [id |-> 0, fps |-> fps_int,
                             frameDuration |-> params[1]],
                 assets |-> [i \in DOMAIN clips |->
                    [id |-> i,
                     name |-> escape(clips[i].clip_name),
                     src |-> escape(FileUrl(clips[i])),
                     duration |-> _rational_time(duration_ms(clips[i]),
                                                 frame_rate)]],
                 event |-> escape(project_name),
                 project |-> escape(project_name),
                 tcFormat |-> params[2],
                 duration |-> _rational_time(
                                TimelineOffset(clips, Len(clips) + 1),
                                frame_rate),
                 spine |-> [i \in DOMAIN clips |->
                    [ref |-> i,
                     name |-> escape(clips[i].clip_name),
                     offset |-> _rational_time(TimelineOffset(clips, i),
                                               frame_rate),
                     start |-> _rational_time(clips[i].start_ms, frame_rate),
                     duration |-> _rational_time(duration_ms(clips[i]),
                                                 frame_rate),
                     tcFormat |-> params[2]]]])

\* The clips drawn are constructed ones.
ExportClipArgs ==
    [clip_name : {<<"a">>}, video_id : {<<"v">>},
     media_path : {<<"p", ">">>}, media_url : {<<>>},
     start_ms : {0, 1017}, end_ms : {50, 1017, 10000}]
    \cup [clip_name : {<<"<", "&">>}, video_id : {<<"v">>},
          media_path : {<<>>}, media_url : {<<"u", "\"">>},
          start_ms : {0, 1017}, end_ms : {50, 1017, 10000}]
ExportClipsDrawn ==
    {ExportClip(kwargs).value :
        kwargs \in {k \in ExportClipArgs : ExportClip(k).raised = NoneValue}}
FrameRatesDrawn ==
    {<<30, 1>>, <<24, 1>>, <<2997, 100>>, <<5994, 100>>, <<1199, 40>>,
     <<2, 5>>, <<-30, 1>>}
NamesDrawn == {<<"T">>, <<"\"", ">">>}

InitExport ==
    /\ pc = "export_call"
    /\ exportClips \in SeqsUpTo(ExportClipsDrawn, MaxClips)
    /\ exportName \in NamesDrawn
    /\ frameRate \in FrameRatesDrawn
    /\ edl = NoneValue
    /\ fcpxml = NoneValue
    /\ IdleExcept("export")

GenerateEdl ==
    /\ pc \in {"export_call", "fcpxml_done"}
    /\ edl' = generate_edl(exportClips, exportName, frameRate)
    /\ pc' = IF pc = "export_call" THEN "edl_done" ELSE "export_done"
    /\ UNCHANGED <<exportClips, exportName, frameRate, fcpxml>>
    /\ FrameExcept("export")

GenerateFcpxml ==
    /\ pc \in {"export_call", "edl_done"}
    /\ fcpxml' = generate_fcpxml(exportClips, exportName, frameRate)
    /\ pc' = IF pc = "export_call" THEN "fcpxml_done" ELSE "export_done"
    /\ UNCHANGED <<exportClips, exportName, frameRate, edl>>
    /\ FrameExcept("export")

NextExport == GenerateEdl \/ GenerateFcpxml
SpecExport == InitExport /\ [][NextExport]_vars

(***************************************************************************)
(* Claims about sample_timestamps and the export generators.               *)
(***************************************************************************)
\* The calls that take arguments a caller can get wrong.
SpecArguments ==
    (InitSampler \/ InitExport) /\ [][NextSampler \/ NextExport]_vars

EdlCalled == pc \in {"edl_done", "export_done"}
FcpxmlCalled == pc \in {"fcpxml_done", "export_done"}
RaisedValueError(outcome) ==
    outcome.raised = "ValueError" /\ outcome.value = NoneValue

\* C17: invalid arguments are rejected with a raised ValueError and no
\* result: sample_timestamps when fps <= 0 or duration_s < 0, generate_edl
\* and generate_fcpxml when the clip list is empty.
C17_InvalidArgumentsRaise ==
    /\ (pc = "sample_done" /\ (sampleFps[1] <= 0 \/ durationS[1] < 0))
            => RaisedValueError(timestamps)
    /\ (EdlCalled /\ exportClips = <<>>) => RaisedValueError(edl)
    /\ (FcpxmlCalled /\ exportClips = <<>>) => RaisedValueError(fcpxml)

\* Both generators were called with the empty clip list and raised.
C17_Witness ==
    /\ pc = "export_done"
    /\ exportClips = <<>>
    /\ RaisedValueError(edl)
    /\ RaisedValueError(fcpxml)

\* The returned list, in thousandths of a second.
Sampled == pc = "sample_done" /\ timestamps.raised = NoneValue
StrictlyAscending(ts) == \A i, j \in DOMAIN ts : i < j => ts[i] < ts[j]

\* C18 as claimed: the list returned by sample_timestamps is strictly
\* ascending, holds no two equal values, and every value lies in
\* [0, duration_s].
C18_AscendingWithinDuration ==
    Sampled =>
        LET ts == timestamps.value
        IN  /\ StrictlyAscending(ts)
            /\ \A i \in DOMAIN ts :
                /\ ts[i] >= 0
                /\ ts[i] * durationS[2] <= 1000 * durationS[1]

\* C18 as amended: the list returned by sample_timestamps is strictly
\* ascending, holds no two equal values, and every value lies between 0 and
\* duration_s rounded to 3 decimals.
C18_AscendingWithinRoundedDuration ==
    Sampled =>
        LET ts == timestamps.value
        IN  /\ StrictlyAscending(ts)
            /\ \A i \in DOMAIN ts :
                /\ ts[i] >= 0
                /\ ts[i] <= RoundRatio(1000 * durationS[1], durationS[2])

\* A boundary at the end of a duration of 0.6875 s is returned as 0.688,
\* next to the samples around it.
C18_Witness ==
    /\ Sampled
    /\ durationS = <<11, 16>>
    /\ sceneBoundaries = << <<11, 16>> >>
    /\ boundaryWindow = <<1, 2>>
    /\ Len(timestamps.value) >= 3
    /\ timestamps.value[Len(timestamps.value)] = 688

\* The timestamps the description names, in thousandths: the grid points
\* k / fps <= duration_s and the boundary samples inside [0, duration_s].
GridPoints ==
    {RoundRatio(1000 * k * sampleFps[2], sampleFps[1]) :
        k \in {k \in 0..((durationS[1] * sampleFps[1])
                            \div (durationS[2] * sampleFps[2])) :
                  LeqRatio(<<k * sampleFps[2], sampleFps[1]>>, durationS)}}
BoundaryPoints ==
    LET w == boundaryWindow
        offsets == {<<-w[1], w[2]>>, <<-w[1], 2 * w[2]>>, <<0, 1>>,
                    <<w[1], 2 * w[2]>>, w}
        around == {AddRatio(sceneBoundaries[n], o) :
                      n \in DOMAIN sceneBoundaries, o \in offsets}
    IN  {RoundRatio(1000 * x[1], x[2]) :
            x \in {y \in around : LeqRatio(<<0, 1>>, y) /\ LeqRatio(y, durationS)}}

\* C19 as claimed: for duration_s > 0 the values returned are exactly,
\* rounded to 3 decimals, the grid points k / fps <= duration_s and the
\* boundary samples b-w, b-w/2, b, b+w/2, b+w that lie in [0, duration_s];
\* duration_s = 0 returns the empty list.
C19_GridAndBoundarySamples ==
    Sampled =>
        IF durationS[1] = 0 THEN timestamps.value = <<>>
        ELSE Range(timestamps.value) = GridPoints \cup BoundaryPoints

\* C20: in the output of generate_edl the first event's record-in is
\* 00:00:00:00 and every event's record-out is the next event's record-in.
C20_RecordTimelineContiguous ==
    (EdlCalled /\ edl.raised = NoneValue) =>
        LET events == edl.value.events
        IN  /\ Len(events) = Len(exportClips)
            /\ events[1].rec_in = <<0, 0, 0, 0>>
            /\ \A i \in 1..(Len(events) - 1) :
                events[i].rec_out = events[i + 1].rec_in

\* Two clips of 10 s and 8.983 s at 30 frames per second: the second event
\* starts on the record timeline where the first one ends, at 00:00:10:00.
C20_Witness ==
    /\ EdlCalled
    /\ edl.raised = NoneValue
    /\ frameRate = <<30, 1>>
    /\ Len(edl.value.events) = 2
    /\ edl.value.events[1].rec_out = <<0, 0, 10, 0>>
    /\ edl.value.events[2].rec_in = <<0, 0, 10, 0>>
    /\ edl.value.events[2].rec_out = <<0, 0, 18, 29>>

BothCalled ==
    pc = "export_done" /\ edl.raised = NoneValue /\ fcpxml.raised = NoneValue

\* C21 as claimed: a frame rate within 0.01 of 29.97 or of 59.94 makes
\* generate_edl emit "FCM: DROP FRAME" and generate_fcpxml emit
\* tcFormat="DF"; every other frame rate makes them emit "FCM: NON-DROP
\* FRAME" and tcFormat="NDF".
C21_SameClassification ==
    BothCalled =>
        LET within == Near(frameRate, 2997) \/ Near(frameRate, 5994)
            tcFormats == {fcpxml.value.tcFormat}
                \cup {fcpxml.value.spine[i].tcFormat :
                        i \in DOMAIN fcpxml.value.spine}
        IN  IF within
            THEN edl.value.fcm = "DROP FRAME" /\ tcFormats = {"DF"}
            ELSE edl.value.fcm = "NON-DROP FRAME" /\ tcFormats = {"NDF"}

\* The attribute values of the document that hold a name or a locator.
NameValues(doc) ==
    {doc.event, doc.project}
    \cup {doc.assets[i].name : i \in DOMAIN doc.assets}
    \cup {doc.assets[i].src : i \in DOMAIN doc.assets}
    \cup {doc.spine[i].name : i \in DOMAIN doc.spine}
Entities ==
    {<<"&", "a", "m", "p", ";">>, <<"&", "l", "t", ";">>,
     <<"&", "g", "t", ";">>, <<"&", "q", "u", "o", "t", ";">>}
EntityAt(value, i) ==
    \E entity \in Entities :
        /\ i + Len(entity) - 1 <= Len(value)
        /\ SubSeq(value, i, i + Len(entity) - 1) = entity
WellEscaped(value) ==
    \A i \in DOMAIN value :
        /\ value[i] \notin {"<", ">", "\""}
        /\ value[i] = "&" => EntityAt(value, i)

\* C22 as claimed: in every attribute value in which generate_fcpxml writes
\* the project name, a clip name or a media locator, none of & < > and the
\* double quote appears unescaped.
C22_NamesEscaped ==
    (FcpxmlCalled /\ fcpxml.raised = NoneValue) =>
        \A value \in NameValues(fcpxml.value) : WellEscaped(value)

(***************************************************************************)
(* Construction of the pydantic models: the validators that run when a    *)
(* class is called.  The keyword arguments drawn have the declared types.  *)
(***************************************************************************)
\* scenes/schemas.py line 20, ingest/schemas.py line 12 and ocr/schemas.py
\* line 24: the scene ids drawn that match each pattern.
SceneIdsDrawn == {"vid_scene_000", "vid_scene_0", "vid"}
MatchesScenePattern(id) == id \in {"vid_scene_000"}
MatchesIngestPattern(id) == id \in {"vid_scene_000", "vid_scene_0"}
MatchesOcrPattern(id) == id \in {"vid_scene_000", "vid_scene_0"}

Missing(kwargs, required) == \E f \in required : f \notin DOMAIN kwargs

\* every validator of the classes but SceneDocument: v < start
EndBeforeStart(kwargs) == kwargs.end_ms < kwargs.start_ms

\* scenes/schemas.py lines 23-48
BuildSceneBoundary(kwargs) ==
    IF \/ Missing(kwargs, {"scene_id", "index", "start_ms", "end_ms",
                           "keyframe_timestamp_ms"})
       \/ ~MatchesScenePattern(kwargs.scene_id)
       \/ EndBeforeStart(kwargs)
    THEN Raise("ValidationError")
    ELSE Return(kwargs @@ [keyframe_path |-> NoneValue])

\* scenes/schemas.py lines 51-79: the scene_id validator is the only one.
BuildSceneDocument(kwargs) ==
    IF \/ Missing(kwargs, {"scene_id", "video_id", "index", "start_ms",
                           "end_ms", "keyframe_timestamp_ms"})
       \/ ~MatchesScenePattern(kwargs.scene_id)
    THEN Raise("ValidationError")
    ELSE Return(SceneDocument(kwargs))

\* ingest/schemas.py lines 29-73; a start_ms that failed ge=0 is read as 0
\* by the end_ms validator, and the construction fails all the same.
BuildIngestSceneDocument(kwargs) ==
    IF \/ Missing(kwargs, {"scene_id", "index", "start_ms", "end_ms"})
       \/ ~MatchesIngestPattern(kwargs.scene_id)
       \/ kwargs.index < 0 \/ kwargs.start_ms < 0 \/ kwargs.end_ms < 0
       \/ EndBeforeStart(kwargs)
    THEN Raise("ValidationError")
    ELSE Return(kwargs @@
            [keyframe_timestamp_ms |-> 0, transcript_raw |-> <<>>,
             speech_segment_count |-> 0, people_cluster_ids |-> <<>>,
             keyword_tags |-> <<>>, product_tags |-> <<>>,
             product_entities |-> <<>>, ocr_text_raw |-> <<>>,
             ocr_char_count |-> 0, scene_caption |-> <<>>,
             source_type |-> "gdrive", required_drive_nickname |-> NoneValue,
             capture_time |-> NoneValue])

\* ocr/schemas.py lines 26-27
OCR_TEXT_MAX_LENGTH == 10000
OCR_MAX_FRAMES_PER_SCENE == 50

WithDefaults(kwargs, defaults) == kwargs @@ defaults

\* lines 48-54: blocks has no length bound.
BuildOCRFrameResult(kwargs) ==
    LET given == WithDefaults(kwargs,
                    [blocks |-> <<>>, text_concat |-> <<>>,
                     processing_time_ms |-> NoneValue])
    IN  IF Missing(kwargs, {"frame_ts_ms"}) \/ kwargs.frame_ts_ms < 0
        THEN Raise("ValidationError")
        ELSE Return(given)

\* lines 83-90: the model validator that runs after the fields are set
_sync_char_count(self) ==
    [self EXCEPT !.ocr_char_count =
        IF self.ocr_text_raw # <<>> THEN Len(self.ocr_text_raw) ELSE 0]

\* lines 57-90
BuildOCRSceneResult(kwargs) ==
    LET given == WithDefaults(kwargs,
                    [frames |-> <<>>, ocr_text_raw |-> <<>>,
                     ocr_char_count |-> 0])
    IN  IF \/ Missing(kwargs, {"scene_id"})
           \/ ~MatchesOcrPattern(kwargs.scene_id)
           \/ Len(given.frames) > OCR_MAX_FRAMES_PER_SCENE
           \/ Len(given.ocr_text_raw) > OCR_TEXT_MAX_LENGTH
           \/ given.ocr_char_count < 0
        THEN Raise("ValidationError")
        ELSE Return(_sync_char_count(given))

TimedClasses ==
    {"SceneBoundary", "SceneDocument", "IngestSceneDocument",
     "ShortsCandidate", "ExportClip"}
OcrClasses == {"OCRFrameResult", "OCRSceneResult"}

\* Class(kwargs)
Build(class, kwargs) ==
    CASE class = "SceneBoundary" -> BuildSceneBoundary(kwargs)
      [] class = "SceneDocument" -> BuildSceneDocument(kwargs)
      [] class = "IngestSceneDocument" -> BuildIngestSceneDocument(kwargs)
      [] class = "ShortsCandidate" -> ShortsCandidate(kwargs)
      [] class = "ExportClip" -> ExportClip(kwargs)
      [] class = "OCRFrameResult" -> BuildOCRFrameResult(kwargs)
      [] class = "OCRSceneResult" -> BuildOCRSceneResult(kwargs)

\* The keyword arguments drawn for each class.
TimesDrawn == {-1000, 0, 1000, 5000}
Repeat(x, n) == [i \in 1..n |-> x]
BlockDrawn ==
    [text |-> <<"a">>, confidence |-> <<9, 10>>,
     bbox |-> << <<0, 1>>, <<0, 1>>, <<1, 1>>, <<1, 1>> >>]
FrameDrawn == BuildOCRFrameResult([frame_ts_ms |-> 0]).value
ArgsDrawn(class) ==
    CASE class = "SceneBoundary" ->
            [scene_id : SceneIdsDrawn, index : {0}, start_ms : TimesDrawn,
             end_ms : TimesDrawn, keyframe_timestamp_ms : {0}]
      [] class = "SceneDocument" ->
            [scene_id : SceneIdsDrawn, video_id : {"vid"}, index : {0},
             start_ms : TimesDrawn, end_ms : TimesDrawn,
             keyframe_timestamp_ms : {0}]
      [] class = "IngestSceneDocument" ->
            [scene_id : SceneIdsDrawn, index : {0}, start_ms : TimesDrawn,
             end_ms : TimesDrawn]
      [] class = "ShortsCandidate" ->
            [candidate_id : {"vid_shorts_000"}, video_id : {"vid"},
             scene_ids : {<<>>, <<"vid_scene_000">>},
             start_ms : TimesDrawn, end_ms : TimesDrawn]
      [] class = "ExportClip" ->
            [clip_name : {<<"a">>}, video_id : {<<"v">>},
             start_ms : TimesDrawn, end_ms : TimesDrawn]
      [] class = "OCRFrameResult" ->
            [frame_ts_ms : {-1, 0},
             blocks : {Repeat(BlockDrawn, n) :
                        n \in {0, 1, OCR_MAX_FRAMES_PER_SCENE,
                               OCR_MAX_FRAMES_PER_SCENE + 1}}]
      [] class = "OCRSceneResult" ->
            LET frames == {Repeat(FrameDrawn, n) :
                            n \in {0, OCR_MAX_FRAMES_PER_SCENE,
                                   OCR_MAX_FRAMES_PER_SCENE + 1}}
                texts == {Repeat("x", n) :
                            n \in {0, 3, OCR_TEXT_MAX_LENGTH,
                                   OCR_TEXT_MAX_LENGTH + 1}}
            IN  [scene_id : SceneIdsDrawn, frames : frames,
                 ocr_text_raw : texts]
                \cup [scene_id : SceneIdsDrawn, frames : frames,
                      ocr_text_raw : texts, ocr_char_count : {-1, 999}]

InitConstruct ==
    /\ pc = "construct_call"
    /\ entityClass \in TimedClasses \cup OcrClasses
    /\ entityArgs \in ArgsDrawn(entityClass)
    /\ built = NoneValue
    /\ IdleExcept("construct")

Construct ==
    /\ pc = "construct_call"
    /\ built' = Build(entityClass, entityArgs)
    /\ pc' = "construct_done"
    /\ UNCHANGED <<entityClass, entityArgs>>
    /\ FrameExcept("construct")

NextConstruct == Construct
SpecConstruct == InitConstruct /\ [][NextConstruct]_vars

\* The arguments other than end_ms are ones the class accepts.
OthersValid ==
    CASE entityClass \in {"SceneBoundary", "SceneDocument"} ->
            MatchesScenePattern(entityArgs.scene_id)
      [] entityClass = "IngestSceneDocument" ->
            MatchesIngestPattern(entityArgs.scene_id) /\ entityArgs.start_ms >= 0
      [] entityClass = "ShortsCandidate" -> entityArgs.scene_ids # <<>>
      [] OTHER -> TRUE

\* C23 as claimed: building a SceneBoundary, SceneDocument,
\* IngestSceneDocument, ShortsCandidate or ExportClip with end_ms < start_ms
\* fails with a validation error, and end_ms = start_ms is accepted.
C23_EndNotBeforeStart ==
    (pc = "construct_done" /\ entityClass \in TimedClasses) =>
        /\ entityArgs.end_ms < entityArgs.start_ms
            => built.raised = "ValidationError"
        /\ (entityArgs.end_ms = entityArgs.start_ms /\ OthersValid)
            => built.raised = NoneValue

\* C24 as claimed: an OCRFrameResult with more than 50 blocks, an
\* OCRSceneResult with more than 50 frames and an OCRSceneResult whose
\* ocr_text_raw is longer than 10,000 characters are rejected with a
\* validation error; every constructed OCRSceneResult has ocr_char_count
\* equal to the length of its ocr_text_raw.
C24_OcrSizeBounds ==
    pc = "construct_done" =>
        /\ (entityClass = "OCRFrameResult" /\ Len(entityArgs.blocks) > 50)
            => built.raised = "ValidationError"
        /\ (entityClass = "OCRSceneResult"
                /\ (\/ Len(entityArgs.frames) > 50
                    \/ Len(entityArgs.ocr_text_raw) > 10000))
            => built.raised = "ValidationError"
        /\ (entityClass = "OCRSceneResult" /\ built.raised = NoneValue)
            => built.value.ocr_char_count = Len(built.value.ocr_text_raw)

----
(***************************************************************************)
(* C25: gate_ocr_text applied to its own result                            *)
(***************************************************************************)

\* gate_ocr_text applied, with the parameters of the call, to the text the
\* call returned.
GatedAgain == gate_ocr_text(gated.value, minChars, maxChars, noiseThreshold)

\* The returned text passes G2 and G3 as it is: no whitespace at either end,
\* at least min_chars long, not noise under noise_threshold.
PassesGates(s) ==
    /\ Strip(s) = s
    /\ Len(s) >= minChars
    /\ ~UsefulRatioBelow(s, noiseThreshold)

\* The call cut the text: the stripped text passed G2 and G3 and is longer
\* than max_chars.
WasCut == ~Rejected /\ Len(StrippedOcrText) > maxChars

\* C25 as claimed: gate_ocr_text is idempotent for fixed parameters, that
\* is, gating the returned text again returns it unchanged, and every
\* non-empty text returned has no leading or trailing whitespace, is at
\* least min_chars long and is not noise, also when it was cut at max_chars.
C25_GateIdempotentAsClaimed ==
    pc = "gate_done" =>
        /\ GatedAgain = gated
        /\ gated.value # <<>> => PassesGates(gated.value)

\* C25 as amended: gating the returned text again returns it unchanged, and
\* a non-empty returned text passes G2 and G3 as it is, whenever the text
\* was not cut at max_chars.
C25_GateIdempotentUncut ==
    pc = "gate_done" /\ ~WasCut =>
        /\ GatedAgain = gated
        /\ gated.value # <<>> => PassesGates(gated.value)

\* A text with whitespace around it that passes the gates and is not cut.
C25_Witness ==
    /\ pc = "gate_done"
    /\ ocrText # StrippedOcrText
    /\ minChars > 0
    /\ noiseThreshold[1] > 0
    /\ ~WasCut
    /\ gated.value # <<>>
    /\ GatedAgain = gated

----
(***************************************************************************)
(* C26: the scene of the OCR result that is merged                         *)
(***************************************************************************)

\* The values the OCR fields have when no OCR text was merged.
OcrFieldDefaults == [ocr_text_raw |-> <<>>, ocr_char_count |-> 0]

\* An OCR field of doc holds what the scene held, or the empty default.
OcrFieldsNotFrom(doc) ==
    \A f \in OcrFields :
        HasField(doc, f) =>
            \/ doc[f] = OcrFieldDefaults[f]
            \/ HasField(sceneDoc, f) /\ doc[f] = sceneDoc[f]

\* C26: when ocr.scene_id differs from scene.scene_id, the OCR fields of the
\* document merge_ocr_into_scene returns are not set from ocr: they hold
\* what scene held or the empty defaults.
C26_OcrOfSameSceneOnly ==
    (/\ pc = "merge_done"
     /\ ~IsNone(ocrResult)
     /\ ocrResult.scene_id # sceneDoc.scene_id)
        => OcrFieldsNotFrom(merged)

----
(***************************************************************************)
(* C27: source and record durations of an EDL event, in frames             *)
(***************************************************************************)

\* The frame count a timecode HH:MM:SS:FF stands for at fps frames a second.
FramesOf(tc, fps) == ((tc[1] * 60 + tc[2]) * 60 + tc[3]) * fps + tc[4]

\* The fields of a timecode are in range: FF < fps, SS < 60, MM < 60.
FieldsInRange(tc, fps) ==
    /\ 0 <= tc[4] /\ tc[4] < fps
    /\ 0 <= tc[3] /\ tc[3] < 60
    /\ 0 <= tc[2] /\ tc[2] < 60

IntegerFrameRate == frameRate[2] = 1 /\ frameRate[1] > 0

\* C27: for an integer frame rate, in every event line of generate_edl the
\* record duration in frames (record-out minus record-in) equals the source
\* duration in frames (source-out minus source-in), each timecode being the
\* frame count round(ms * fps / 1000) written with FF < fps, SS < 60 and
\* MM < 60.
C27_RecordDurationIsSourceDuration ==
    (EdlCalled /\ edl.raised = NoneValue /\ IntegerFrameRate) =>
        LET fps == frameRate[1]
            events == edl.value.events
        IN  \A i \in 1..Len(events) :
                /\ \A t \in {"src_in", "src_out", "rec_in", "rec_out"} :
                        FieldsInRange(events[i][t], fps)
                /\ FramesOf(events[i].src_in, fps)
                        = RoundRatio(exportClips[i].start_ms * fps, 1000)
                /\ FramesOf(events[i].src_out, fps)
                        = RoundRatio(exportClips[i].end_ms * fps, 1000)
                /\ FramesOf(events[i].rec_out, fps)
                            - FramesOf(events[i].rec_in, fps)
                        = FramesOf(events[i].src_out, fps)
                            - FramesOf(events[i].src_in, fps)

----
(***************************************************************************)
(* C28: the asset-clips of the FCPXML spine, in frames                     *)
(***************************************************************************)

\* The sum of the frame counts of the durations of the first k asset-clips.
RECURSIVE SpineFrames(_, _)
SpineFrames(spine, k) ==
    IF k = 0 THEN 0 ELSE SpineFrames(spine, k - 1) + spine[k].duration[1]

\* C28: in the spine written by generate_fcpxml the first asset-clip has
\* offset 0, the offset of every later asset-clip is the offset plus the
\* duration, in frames, of the one before it, the sequence duration is the
\* sum of the asset-clip durations, and the k-th asset-clip references the
\* k-th asset, the asset ids being 1..n.
C28_SpineClipsAbut ==
    (FcpxmlCalled /\ fcpxml.raised = NoneValue) =>
        LET doc == fcpxml.value
            spine == doc.spine
        IN  /\ Len(spine) = Len(exportClips)
            /\ Len(doc.assets) = Len(exportClips)
            /\ spine[1].offset[1] = 0
            /\ \A k \in 2..Len(spine) :
                    spine[k].offset[1]
                        = spine[k - 1].offset[1] + spine[k - 1].duration[1]
            /\ doc.duration[1] = SpineFrames(spine, Len(spine))
            /\ \A k \in 1..Len(spine) :
                    spine[k].ref = doc.assets[k].id /\ doc.assets[k].id = k

----
(***************************************************************************)
(* C29: the duration-fitness term of score_scene                           *)
(***************************************************************************)

\* The distance of a duration from the ideal one, and its side of it.
FromIdeal(duration) ==
    IF duration < IDEAL_DURATION_MS THEN IDEAL_DURATION_MS - duration
    ELSE duration - IDEAL_DURATION_MS
SameSide(d1, d2) ==
    (d1 <= IDEAL_DURATION_MS /\ d2 <= IDEAL_DURATION_MS)
        \/ (d1 >= IDEAL_DURATION_MS /\ d2 >= IDEAL_DURATION_MS)
InsideRange(duration) ==
    MIN_DURATION_MS <= duration /\ duration <= MAX_DURATION_MS

\* The scenes were scored with the duration fitness as the only weighted
\* term, so that the score of a candidate is its duration-fitness term.
FitnessScored ==
    /\ pc = "select_done"
    /\ candidates.raised = NoneValue
    /\ scoringWeights = <<FitnessOnlyWeights>>

\* C29: with every other term equal, the duration-fitness term of score_scene
\* is greatest at the ideal duration of 45,000 ms and never increases as the
\* duration moves further from it in either direction; no scene whose
\* duration is outside [30,000, 60,000] ms gets a higher fitness than a scene
\* whose duration is inside it.
C29_FitnessFallsFromIdeal ==
    FitnessScored =>
        \A i, j \in DOMAIN candidates.value :
            LET near == candidates.value[i]
                far == candidates.value[j]
                dnear == near.end_ms - near.start_ms
                dfar == far.end_ms - far.start_ms
            IN  /\ dnear = IDEAL_DURATION_MS => far.score <= near.score
                /\ (SameSide(dnear, dfar) /\ FromIdeal(dnear) <= FromIdeal(dfar))
                        => far.score <= near.score
                /\ (InsideRange(dnear) /\ ~InsideRange(dfar))
                        => far.score <= near.score

----
(***************************************************************************)
(* speech/tagger.py: the objects SpeechTagger instances hold.  A dict      *)
(* object maps each key to the address of a list object, so that two       *)
(* dictionaries may hold the same list.                                    *)
(***************************************************************************)

\* lines 11-17, two of its categories with one keyword each.
DEFAULT_KEYWORD_DICT ==
    Dict(<<"price", "cta">>, "price" :> <<<<"A">>>> @@ "cta" :> <<<<"b">>>>)

\* The dictionaries a caller passes.
PassedDictsDrawn ==
    {Dict(<<"price">>, "price" :> <<<<"A">>, <<"A">>>>),
     Dict(<<"cta", "price">>, "cta" :> <<>> @@ "price" :> <<<<"b">>>>)}
OwnCategories == {"price", "promo"}
OwnKeywordsDrawn == {<<<<"A">>>>, <<<<"a", "b">>, <<"A">>>>}

\* Addresses of the module's dictionary and of the caller's.
DefaultAddr == 1
PassedAddr == 2

\* The dictionary at address d, by value.
DictValue(ls, ds, d) ==
    Dict(ds[d].order, [c \in DOMAIN ds[d].items |-> ls[ds[d].items[c]]])

\* New list objects for the lists of kd, and the dict object that holds
\* them, after the objects there are.
Allocate(ls, ds, kd) ==
    LET held == [n \in DOMAIN kd.order |-> kd.items[kd.order[n]]]
        at == [c \in DOMAIN kd.items |->
                Len(ls) + (CHOOSE n \in DOMAIN kd.order : kd.order[n] = c)]
    IN  [lists |-> ls \o held,
         dicts |-> Append(ds, [order |-> kd.order, items |-> at])]

\* dict(keyword_dict): a new dict object that holds the lists of the source.
SpeechTaggerShallow(ls, ds, source, threshold) ==
    [lists |-> ls,
     dicts |-> Append(ds, ds[source]),
     self |-> [keyword_dict |-> Len(ds) + 1,
               min_score_threshold |-> threshold,
               tag_categories |-> ds[source].order]]

\* lines 23-41: {k: list(v) for k, v in source.items()}, and the keys.
SpeechTagger(ls, ds, source, threshold) ==
    LET new == Allocate(ls, ds, DictValue(ls, ds, source))
    IN  [lists |-> new.lists,
         dicts |-> new.dicts,
         self |-> [keyword_dict |-> Len(ds) + 1,
                   min_score_threshold |-> threshold,
                   tag_categories |-> ds[source].order]]

\* lines 82-89 on the objects: a new category gets a new empty list; extend
\* changes the list object of the category in place; the category is then
\* given a new list object, list(set(..)).
add_keywords_in_place(ls, ds, self, category, keywords) ==
    LET d == self.keyword_dict
        fresh == ~HasField(ds[d].items, category)
        ls1 == IF fresh THEN Append(ls, <<>>) ELSE ls
        items1 == IF fresh THEN (category :> Len(ls1)) @@ ds[d].items
                  ELSE ds[d].items
        order1 == IF fresh THEN Append(ds[d].order, category) ELSE ds[d].order
        a == items1[category]
        ls2 == [ls1 EXCEPT ![a] = ls1[a] \o keywords]
    IN  {[lists |-> Append(ls2, l),
          dicts |-> [ds EXCEPT ![d] =
                        [order |-> order1,
                         items |-> [items1 EXCEPT ![category] = Len(ls2) + 1]]],
          self |-> [self EXCEPT !.tag_categories =
                        IF fresh THEN Append(self.tag_categories, category)
                        ELSE self.tag_categories]] :
            l \in ListOfSet(ls2[a])}

\* The module is loaded and the caller has built a dictionary.
InitOwn ==
    /\ pc = "own_call"
    /\ \E passed \in PassedDictsDrawn :
        LET module == Allocate(<<>>, <<>>, DEFAULT_KEYWORD_DICT)
            caller == Allocate(module.lists, module.dicts, passed)
        IN  lists = caller.lists /\ dicts = caller.dicts
    /\ taggers = <<>>
    /\ ownSegments = <<SpeechSegment(<<"B", "a">>)>>
    /\ ownTagged = NoneValue
    /\ lastCall = <<>>
    /\ addsMade = 0
    /\ IdleExcept("own")

\* SpeechTagger() or SpeechTagger(keyword_dict)
NewSpeechTagger ==
    /\ pc = "own_call"
    /\ Len(taggers) < MaxTaggers
    /\ \E source \in {DefaultAddr, PassedAddr} :
        LET new == SpeechTagger(lists, dicts, source, <<0, 1>>)
        IN  /\ lists' = new.lists
            /\ dicts' = new.dicts
            /\ taggers' = Append(taggers, new.self)
    /\ lastCall' = <<"SpeechTagger", Len(taggers) + 1>>
    /\ UNCHANGED <<pc, ownSegments, ownTagged, addsMade>>
    /\ FrameExcept("own")

OwnAddKeywords ==
    /\ pc = "own_call"
    /\ addsMade < MaxOwnAdds
    /\ addsMade' = addsMade + 1
    /\ \E i \in DOMAIN taggers, category \in OwnCategories,
          keywords \in OwnKeywordsDrawn :
        /\ \E after \in add_keywords_in_place(lists, dicts, taggers[i],
                                              category, keywords) :
            /\ lists' = after.lists
            /\ dicts' = after.dicts
            /\ taggers' = [taggers EXCEPT ![i] = after.self]
        /\ lastCall' = <<"add_keywords", i>>
    /\ UNCHANGED <<pc, ownSegments, ownTagged>>
    /\ FrameExcept("own")

OwnTag ==
    /\ pc = "own_call"
    /\ \E i \in DOMAIN taggers :
        /\ ownTagged' = tag(DictValue(lists, dicts, taggers[i].keyword_dict),
                            taggers[i].min_score_threshold, ownSegments)
        /\ lastCall' = <<"tag", i>>
    /\ UNCHANGED <<pc, lists, dicts, taggers, ownSegments, addsMade>>
    /\ FrameExcept("own")

NextOwn == NewSpeechTagger \/ OwnAddKeywords \/ OwnTag

SpecOwn == InitOwn /\ [][NextOwn]_vars

----
\* The dictionary of instance i, and the two dictionaries given, by value.
TaggerDict(i) == DictValue(lists, dicts, taggers[i].keyword_dict)
DefaultValue == DictValue(lists, dicts, DefaultAddr)
PassedValue == DictValue(lists, dicts, PassedAddr)

\* tag_categories of instance i lists the keys of its dictionary, in the
\* order of insertion.
KeysListed(i) ==
    /\ taggers[i].tag_categories = TaggerDict(i).order
    /\ Range(TaggerDict(i).order) = DOMAIN TaggerDict(i).items
    /\ Len(TaggerDict(i).order) = Cardinality(DOMAIN TaggerDict(i).items)

\* What a call leaves as it was: DEFAULT_KEYWORD_DICT, the dictionary passed
\* to the constructors, the dictionary of every instance but the one
\* add_keywords was called on, and the segments.
OwnStep ==
    /\ DefaultValue' = DefaultValue
    /\ PassedValue' = PassedValue
    /\ ownSegments' = ownSegments
    /\ \A j \in DOMAIN taggers :
        (lastCall' = <<"add_keywords", j>>) \/ TaggerDict(j)' = TaggerDict(j)
    /\ \A j \in DOMAIN taggers' : KeysListed(j)'

\* C30: whatever the interleaving of add_keywords and tag calls on the
\* SpeechTagger instances, every call leaves DEFAULT_KEYWORD_DICT, the
\* keyword_dict passed to a constructor and the dictionaries of the other
\* instances unchanged, tag_categories of each instance lists exactly the
\* keys of its keyword_dict in insertion order, and tag changes neither the
\* tagger's dictionary nor its input segments.
C30_TaggerOwnsDictionary == [][OwnStep]_vars

\* Two instances built from the caller's dictionary; add_keywords has added
\* a keyword to "price" on the first one, which has tagged a segment since;
\* the second one and the caller's dictionary hold what the caller wrote.
C30_Witness ==
    /\ pc = "own_call"
    /\ Len(taggers) = 2
    /\ lastCall = <<"tag", 1>>
    /\ addsMade = 1
    /\ TaggerDict(2) = PassedValue
    /\ PassedValue.order = <<"price">>
    /\ PassedValue.items["price"] = <<<<"A">>, <<"A">>>>
    /\ taggers[1].tag_categories = <<"price">>
    /\ Range(TaggerDict(1).items["price"]) = {<<"A">>, <<"a", "b">>}
    /\ Len(TaggerDict(1).items["price"]) = 2
    /\ DefaultValue = DEFAULT_KEYWORD_DICT
    /\ Len(ownTagged) = 1
    /\ ownTagged[1].tags = <<"price">>

====
